---- MODULE Spec2Model ----
(***************************************************************************)
(* Model of the game process lifecycle controller of ys-compass            *)
(* (src-tauri/src/app/game.rs): the two launch entry points, launch_game   *)
(* with its anti-cheat gate and tool loop, and the process watcher that    *)
(* writes the GAME_STATUS broadcast.                                       *)
(***************************************************************************)
EXTENDS Integers, Sequences, FiniteSets, TLC

\* ------------------------------------------------------------------ bounds
MaxTools == 2
MaxLaunches == 2
MaxProcs == 1
MaxInjects == 3
MaxDigits == 2
MaxIdLen == 2
MaxStored == 2
MaxDrivers == 3
MaxSniffCalls == 2
MaxProfCalls == 2
MaxDirs == 4

\* ------------------------------------------------------- program constants
\* Tool entries are classified by the branch lines 585-612 of game.rs take:
\*   invalid  : one of the three `continue` checks applies (resolve_path
\*              failed, the path does not exist, the path has no extension)
\*   other    : an extension other than dll / exe
\*   dll, exe : a path that exists with that extension
ToolKinds == {"invalid", "other", "dll", "exe"}

\* Outcomes of the OS calls made by inject_dll.
DllOutcomes == {"alloc_fail", "write_fail", "thread_fail", "timeout", "ok"}

\* Outcomes of open_game, in the order of its early returns.
OpenOutcomes == {"game.error.launch.not-elevated", "game.error.launch.no-parent",
                 "game.error.launch.bad-path", "game.error.launch.unknown", "ok"}

\* Outcomes of the LoadLibraryA lookup.
LoaderOutcomes == {"game.error.launch.unknown", "game.error.launch.dll-fail", "ok"}

WatcherStates == {"none", "wait_open", "send_true", "wait_close", "send_false", "done"}

SeqsUpTo(S, n) == UNION {[1..k -> S] : k \in 0..n}

VARIABLES
    selected,       \* SelectedProfile holds Some(profile)
    disable_ac,     \* config.game.disable_anti_cheat
    tools,          \* profile.tools, as the kinds of its entries
    gameProcs,      \* number of OS processes named like the profile's executable
    driver,         \* the anti-cheat driver is in the loaded driver list
    pc,             \* position of the caller's thread in the launch call
    kind,           \* entry point of the call in progress: "gui" or "cli"
    hasProfile,     \* the call in progress has resolved a profile
    presentAtCall,  \* a matching process was present when the call was made
    result,         \* what the call returned ("none" while in progress)
    launches,       \* number of launch calls made
    spawned,        \* Watcher threads spawned by the call in progress
    created,        \* open_game returned the handle pair in this call
    processCloses,  \* CloseHandle calls on the process handle
    threadCloses,   \* CloseHandle calls on the primary-thread handle
    token,          \* the launcher's own process token handle: "none", "failed", "open"
    shell,          \* the handle of the explorer.exe process: "none", "failed", "open"
    tokenUsed,      \* whose token was passed to CreateProcessAsUserA: "none", "launcher", "shell"
    suspends,       \* NtSuspendProcess calls on the target
    resumes,        \* NtResumeProcess calls on the target
    threadResumes,  \* ResumeThread calls on the primary thread
    i,              \* tool loop index (0 before the loop is entered)
    injected,       \* indices of the tools for which inject_dll was called
    exeFailed,      \* open_executable failed for an exe tool of this call
    watcher,        \* state of the Watcher thread of each launch call
    statusLog,      \* values sent on GAME_STATUS, in order
    injPc,          \* position inside inject_dll
    injCalls,       \* number of inject_dll calls made on the target
    mem,            \* the region allocated by the call: "none", "null", "allocated", "freed"
    regions,        \* regions allocated by inject_dll and not freed in the target
    remote,         \* the remote LoadLibraryA thread: "none", "running", "exited"
    stale,          \* remote threads of earlier calls still running in the target
    hRemote,        \* the remote thread handle: "none", "open", "closed"
    injFail,        \* first sub-failure of the call: "none", "alloc", "write", "thread", "timeout"
    injRet,         \* what the call returned ("none" while in progress)
    qpc,            \* position of a thread calling game__is_open: "idle", "lock", "ret"
    qResult,        \* what its last game__is_open call returned
    vpc,            \* position of a locate_game call
    game_data,      \* the scanned file after from_utf8_lossy, one character per element
    version_string, \* captures.get(0), <<>> while there is none
    verRet,         \* what locate_game returned ("none" while in progress)
    files,          \* the two files on disk at the read, as a sequence of at most one pair
    vpath,          \* the `path` argument of the locate_game call
    ppc,            \* position of the caller that saves a profile and reloads: "idle", "saved", "loaded"
    db_tools,       \* table `tools`, as the set of its ids
    db_versions,    \* table `versions`, rows [version, path]
    db_profiles,    \* table `profiles`, rows [id, version, tools]
    profile,        \* the Profile last passed to Profile::save, as a sequence of at most one
    profiles,        \* GameManager.profiles
    dpc,             \* position of a driver_loaded call: "idle", "enum", "scan", "ret"
    loaded,          \* the kernel drivers loaded in the system, by what their base name is
    ptrSize,         \* size in bytes of a pointer in this build
    enumSucceeds,          \* EnumDeviceDrivers succeeds in this call
    needed,          \* bytes EnumDeviceDrivers reported as needed
    drivers,         \* the buffer of load addresses, as indices into `loaded` (0 is the null pointer)
    drvRet,           \* what driver_loaded returned: "none", "true", "false", "error"
    SNIFFER_RUNNING, \* the flag of sniffer.rs
    status,          \* the value held by the GAME_STATUS channel
    sent,            \* GAME_STATUS has been written since it was created
    spc,             \* position of each sniffer__run call
    tpc,             \* position of the listener task each call spawned
    pending,         \* per call: its listener has not seen the latest write
    owed,             \* per call: false was written after its sniffer started and its hook is not signalled yet
    booted,          \* main.rs has run load_all and SelectedProfile::new
    gm_profiles,     \* ids of GameManager.profiles
    saved,           \* ids of the rows of `profiles` written by Profile::save
    GLOBAL_STATE,    \* selected_profile of the persistent state
    SelectedProfile, \* id of the profile the SelectedProfile mutex guards
    selHolder,       \* the call holding the SelectedProfile mutex, or 0
    gsHolder,        \* the call holding the write lock of GLOBAL_STATE, or 0
    cmd,              \* per call: the command, its argument, its position and its result
    opc,             \* position of the open_executable call
    current_dir,     \* the working directory of the process
    cwd,             \* the working directory open_executable stored at entry
    folder,          \* the directory of the executable to open
    openRet,          \* what open_executable returned
    lpc,             \* position of the load_all call
    tbl_tools,       \* ids of the rows of `tools`
    tbl_mods,        \* rows of `mods`: id and tool
    tbl_versions,    \* versions of the rows of `versions`
    tbl_profiles,    \* rows of `profiles`: version, joined tool ids, joined mod ids
    self_tools,      \* GameManager.tools
    self_mods,       \* GameManager.mods
    self_versions,   \* GameManager.versions
    self_profiles    \* GameManager.profiles

envVars == <<gameProcs, driver>>
cfgVars == <<selected, disable_ac, tools>>
callVars == <<pc, kind, hasProfile, presentAtCall, result, launches, spawned>>
handleVars == <<created, processCloses, threadCloses, token, shell, tokenUsed>>
gateVars == <<suspends, resumes, threadResumes>>
toolVars == <<i, injected, exeFailed>>
watchVars == <<watcher, statusLog>>
injVars == <<injPc, injCalls, mem, regions, remote, stale, hRemote, injFail, injRet>>
\* The variables of the other specifications of this module.
queryVars == <<qpc, qResult>>
verVars == <<vpc, game_data, version_string, verRet, files, vpath>>
storeVars == <<ppc, db_tools, db_versions, db_profiles, profile, profiles>>
drvVars == <<dpc, loaded, ptrSize, enumSucceeds, needed, drivers, drvRet>>
sniffVars == <<SNIFFER_RUNNING, status, sent, spc, tpc, pending, owed>>
profVars == <<booted, gm_profiles, saved, GLOBAL_STATE, SelectedProfile, selHolder, gsHolder, cmd>>
openVars == <<opc, current_dir, cwd, folder, openRet>>
loadVars == <<lpc, tbl_tools, tbl_mods, tbl_versions, tbl_profiles, self_tools, self_mods, self_versions, self_profiles>>
sideVars == <<injVars, queryVars, verVars, storeVars, drvVars, sniffVars, profVars, openVars, loadVars>>
launchVars == <<envVars, cfgVars, callVars, handleVars, gateVars, toolVars, watchVars>>
\* What the steps of inject_dll leave alone.
injOthers == <<launchVars, queryVars, verVars, storeVars, drvVars, sniffVars, profVars, openVars, loadVars>>
\* What the steps of a game__is_open caller leave alone.
queryOthers == <<launchVars, injVars, verVars, storeVars, drvVars, sniffVars, profVars, openVars, loadVars>>
\* What the steps of locate_game leave alone.
verOthers == <<launchVars, injVars, queryVars, ppc, db_tools, db_profiles, profile, profiles, drvVars, sniffVars, profVars, openVars, loadVars>>
\* What the steps on the storage leave alone.
storeOthers == <<launchVars, injVars, queryVars, verVars, drvVars, sniffVars, profVars, openVars, loadVars>>
\* What the steps of driver_loaded leave alone.
drvOthers == <<launchVars, injVars, queryVars, verVars, storeVars, sniffVars, profVars, openVars, loadVars>>
\* What the steps of sniffer__run and of its tasks leave alone.
sniffOthers == <<launchVars, injVars, queryVars, verVars, storeVars, drvVars, profVars, openVars, loadVars>>
\* What the profile commands leave alone.
profOthers == <<launchVars, injVars, queryVars, verVars, storeVars, drvVars, sniffVars, openVars, loadVars>>
\* What the steps of open_executable leave alone.
openOthers == <<launchVars, injVars, queryVars, verVars, storeVars, drvVars, sniffVars, profVars, loadVars>>
\* What the steps of load_all leave alone.
loadOthers == <<launchVars, injVars, queryVars, verVars, storeVars, drvVars, sniffVars, profVars, openVars>>
vars == <<envVars, cfgVars, sideVars, callVars, handleVars, gateVars, toolVars, watchVars>>

\* system::find_process for the profile's executable name.
find_process == gameProcs > 0

\* game__is_open: false when no profile is selected.
game__is_open == selected /\ find_process

TypeOK ==
    /\ selected \in BOOLEAN /\ disable_ac \in BOOLEAN
    /\ tools \in SeqsUpTo(ToolKinds, MaxTools)
    /\ gameProcs \in 0..MaxProcs /\ driver \in BOOLEAN
    /\ kind \in {"gui", "cli"}
    /\ launches \in 0..MaxLaunches
    /\ watcher \in [1..MaxLaunches -> WatcherStates]
    /\ statusLog \in Seq(BOOLEAN)
    /\ exeFailed \in BOOLEAN
    /\ injCalls \in 0..MaxInjects /\ regions \in 0..MaxInjects
    /\ mem \in {"none", "null", "allocated", "freed"}
    /\ remote \in {"none", "running", "exited"}
    /\ stale \in 0..MaxInjects
    /\ hRemote \in {"none", "open", "closed"}
    /\ injFail \in {"none", "alloc", "write", "thread", "timeout"}
    /\ qpc \in {"idle", "lock", "ret"} /\ qResult \in BOOLEAN
    /\ vpc \in {"idle", "match", "lookup", "save", "done"}
    /\ game_data \in Seq(STRING) /\ version_string \in Seq(STRING)
    /\ ppc \in {"idle", "saved", "loaded"}
    /\ Cardinality(db_tools) <= MaxStored /\ Cardinality(db_profiles) <= 1
    /\ Len(profile) <= 1 /\ Len(profiles) <= 1
    /\ Len(files) <= 1 /\ vpath \in STRING
    /\ dpc \in {"idle", "enum", "scan", "ret"}
    /\ Len(loaded) <= MaxDrivers /\ ptrSize \in {4, 8} /\ enumSucceeds \in BOOLEAN
    /\ drvRet \in {"none", "true", "false", "error"}
    /\ SNIFFER_RUNNING \in BOOLEAN /\ status \in BOOLEAN /\ sent \in BOOLEAN
    /\ spc \in [1..MaxSniffCalls -> {"idle", "run", "spawn", "set", "done"}]
    /\ tpc \in [1..MaxSniffCalls -> {"none", "wait", "borrow", "hook", "unset", "done"}]
    /\ pending \in [1..MaxSniffCalls -> BOOLEAN] /\ owed \in [1..MaxSniffCalls -> BOOLEAN]
    /\ booted \in BOOLEAN
    /\ gm_profiles \subseteq {"p", "q"} /\ saved \subseteq {"p", "q"}
    /\ GLOBAL_STATE \in {"none", "p", "q"} /\ SelectedProfile \in {"none", "p", "q"}
    /\ selHolder \in 0..MaxProfCalls /\ gsHolder \in 0..MaxProfCalls
    /\ cmd \in [1..MaxProfCalls ->
                  [op : {"none", "new", "set", "save"}, id : {"none", "p", "q"},
                   at : {"idle", "save", "lookup", "lock_sel", "lock_gs", "done"},
                   ret : {"none", "ok", "unknown", "bad-id", "error"}]]
    /\ opc \in {"idle", "resolve", "switch", "open", "restore", "ret"}
    /\ current_dir \in 1..MaxDirs /\ cwd \in 1..MaxDirs /\ folder \in 1..MaxDirs
    /\ openRet \in {"none", "Err", "Success", "Failed"}
    /\ lpc \in {"idle", "tools", "mods", "versions", "profiles", "ok", "err"}

\* No inject_dll call has been made.
InitInject ==
    /\ injPc = "idle"
    /\ injCalls = 0
    /\ mem = "none"
    /\ regions = 0
    /\ remote = "none"
    /\ stale = 0
    /\ hRemote = "none"
    /\ injFail = "none"
    /\ injRet = "none"

\* No game__is_open call has been made by the other thread.
InitQuery ==
    /\ qpc = "idle"
    /\ qResult = FALSE

\* No locate_game call has been made.
InitVersion ==
    /\ vpc = "idle"
    /\ game_data = <<>>
    /\ version_string = <<>>
    /\ verRet = "none"
    /\ files = <<>>
    /\ vpath = "none"

\* The tables are empty and nothing has been loaded.
InitStore ==
    /\ ppc = "idle"
    /\ db_tools = {}
    /\ db_versions = {}
    /\ db_profiles = {}
    /\ profile = <<>>
    /\ profiles = <<>>

\* No driver_loaded call has been made.
InitDriver ==
    /\ dpc = "idle"
    /\ loaded = <<>>
    /\ ptrSize = 8
    /\ enumSucceeds = TRUE
    /\ needed = 0
    /\ drivers = <<>>
    /\ drvRet = "none"

\* No sniffer__run call has been made; GAME_STATUS holds its initial false.
InitSniffer ==
    /\ SNIFFER_RUNNING = FALSE
    /\ status = FALSE
    /\ sent = FALSE
    /\ spc = [c \in 1..MaxSniffCalls |-> "idle"]
    /\ tpc = [c \in 1..MaxSniffCalls |-> "none"]
    /\ pending = [c \in 1..MaxSniffCalls |-> FALSE]
    /\ owed = [c \in 1..MaxSniffCalls |-> FALSE]

\* The application has not been set up; no command is running.
InitProfile ==
    /\ booted = FALSE
    /\ gm_profiles = {}
    /\ saved = {}
    /\ GLOBAL_STATE = "none"
    /\ SelectedProfile = "none"
    /\ selHolder = 0
    /\ gsHolder = 0
    /\ cmd = [c \in 1..MaxProfCalls |-> [op |-> "none", id |-> "none", at |-> "idle", ret |-> "none"]]

\* open_executable has not been called; the process runs in its first directory.
InitOpen ==
    /\ opc = "idle"
    /\ current_dir = 1
    /\ cwd = 1
    /\ folder = 1
    /\ openRet = "none"

\* The GameManager is new: all its lists are empty.
InitLoad ==
    /\ lpc = "idle"
    /\ tbl_tools = {}
    /\ tbl_mods = {}
    /\ tbl_versions = {}
    /\ tbl_profiles = {}
    /\ self_tools = {}
    /\ self_mods = {}
    /\ self_versions = {}
    /\ self_profiles = {}

InitSide == InitInject /\ InitQuery /\ InitVersion /\ InitStore /\ InitDriver /\ InitSniffer /\ InitProfile /\ InitOpen /\ InitLoad

Init ==
    /\ InitSide
    /\ selected \in BOOLEAN
    /\ disable_ac \in BOOLEAN
    /\ tools \in SeqsUpTo(ToolKinds, MaxTools)
    /\ gameProcs = 0
    /\ driver = FALSE
    /\ pc = "idle"
    /\ kind = "gui"
    /\ hasProfile = FALSE
    /\ presentAtCall = FALSE
    /\ result = "none"
    /\ launches = 0
    /\ spawned = 0
    /\ created = FALSE
    /\ processCloses = 0
    /\ threadCloses = 0
    /\ token = "none"
    /\ shell = "none"
    /\ tokenUsed = "none"
    /\ suspends = 0
    /\ resumes = 0
    /\ threadResumes = 0
    /\ i = 0
    /\ injected = <<>>
    /\ exeFailed = FALSE
    /\ watcher = [w \in 1..MaxLaunches |-> "none"]
    /\ statusLog = <<>>

\* A new call starts with fresh per-call bookkeeping.
ResetCall ==
    /\ created' = FALSE
    /\ processCloses' = 0
    /\ threadCloses' = 0
    /\ token' = "none"
    /\ shell' = "none"
    /\ tokenUsed' = "none"
    /\ suspends' = 0
    /\ resumes' = 0
    /\ threadResumes' = 0
    /\ i' = 0
    /\ injected' = <<>>
    /\ exeFailed' = FALSE
    /\ spawned' = 0

\* Return from the call with an error.
Fail(err) == result' = err /\ pc' = "done"


\* ------------------------------------------------------------ environment
\* A process with the executable's name is started outside the launcher.
ExternalStart ==
    /\ gameProcs < MaxProcs
    /\ gameProcs' = gameProcs + 1
    /\ UNCHANGED <<driver, cfgVars, sideVars, callVars, handleVars, gateVars, toolVars, watchVars>>

\* A process with the executable's name exits.
ProcessExit ==
    /\ gameProcs > 0
    /\ gameProcs' = gameProcs - 1
    /\ UNCHANGED <<driver, cfgVars, sideVars, callVars, handleVars, gateVars, toolVars, watchVars>>

\* The loaded driver list is read only by wait_for_driver, so its changes
\* are modelled while that function runs: either value can be reached
\* before each of its polls.
InGate == pc \in {"gate_load", "gate_suspend", "gate_unload", "gate_resume"}

\* The anti-cheat driver is loaded by the system.
DriverLoad ==
    /\ InGate
    /\ ~driver
    /\ driver' = TRUE
    /\ UNCHANGED <<gameProcs, cfgVars, sideVars, callVars, handleVars, gateVars, toolVars, watchVars>>

\* The anti-cheat driver is unloaded by the system.
DriverUnload ==
    /\ InGate
    /\ driver
    /\ driver' = FALSE
    /\ UNCHANGED <<gameProcs, cfgVars, sideVars, callVars, handleVars, gateVars, toolVars, watchVars>>

\* ------------------------------------------------------- launch entry points
CanCall == pc \in {"idle", "done"} /\ launches < MaxLaunches

\* game__launch, lines 391-394: the call starts with the game__is_open check.
game__launch_check ==
    /\ CanCall
    /\ launches' = launches + 1
    /\ kind' = "gui"
    /\ hasProfile' = selected
    /\ presentAtCall' = find_process
    /\ ResetCall
    /\ IF game__is_open
         THEN Fail("game.error.already-open")
         ELSE result' = "none" /\ pc' = "watch"
    /\ UNCHANGED <<envVars, cfgVars, sideVars, watchVars>>

\* watch_game with the thread spawn left out.
watch_game_unspawned ==
    UNCHANGED <<watcher, spawned>>

\* watch_game: one Watcher thread is spawned for the call.
watch_game ==
    /\ watcher' = [watcher EXCEPT ![launches] = "wait_open"]
    /\ spawned' = spawned + 1

\* game__launch, lines 399-408: the profile lookup, then watch_game, then
\* the call of launch_game.
game__launch_watch ==
    /\ pc = "watch"
    /\ IF ~selected
         THEN /\ Fail("game.error.launch.no-profile")
              /\ UNCHANGED <<watcher, spawned>>
         ELSE /\ watch_game
              /\ pc' = "open_game"
              /\ UNCHANGED result
    /\ UNCHANGED <<envVars, cfgVars, sideVars, kind, hasProfile, presentAtCall, launches,
                   handleVars, gateVars, toolVars, statusLog>>

\* cli_game__launch, lines 415-438: the profile lookup, then the call of
\* launch_game; no liveness check is made and no Watcher is spawned.
cli_game__launch ==
    /\ CanCall
    /\ launches' = launches + 1
    /\ kind' = "cli"
    /\ presentAtCall' = find_process
    /\ ResetCall
    /\ \E found \in BOOLEAN :
         /\ hasProfile' = found
         /\ IF found
              THEN result' = "none" /\ pc' = "open_game"
              ELSE Fail("game.error.launch.invalid-profile")
    /\ UNCHANGED <<envVars, cfgVars, sideVars, watchVars>>

\* ------------------------------------------------------------- launch_game
\* open_game, lines 695-733, by the early return taken: the launcher's own
\* process token is opened first, then explorer.exe is looked up and opened;
\* neither handle is closed on any path.
open_game_handles(o) ==
    [ token |-> IF o = "game.error.launch.not-elevated" THEN "failed" ELSE "open",
      shell |-> CASE o = "game.error.launch.not-elevated" -> "none"
                  [] o = "game.error.launch.no-parent" -> "failed"
                  [] OTHER -> "open" ]

\* open_game, line 760: the token passed to CreateProcessAsUserA is the one
\* obtained from OpenProcessToken(GetCurrentProcess()).
open_game_token == "launcher"

\* open_game with the process created although the shell process was not
\* found or not opened.
open_game_unchecked ==
    /\ pc = "open_game"
    /\ \E o \in OpenOutcomes :
         /\ token' = open_game_handles(o).token
         /\ shell' = open_game_handles(o).shell
         /\ IF o \in {"ok", "game.error.launch.no-parent"}
              THEN /\ gameProcs < MaxProcs
                   /\ gameProcs' = gameProcs + 1
                   /\ created' = TRUE
                   /\ tokenUsed' = open_game_token
                   /\ pc' = IF disable_ac THEN "gate_load" ELSE "load_library"
                   /\ UNCHANGED result
              ELSE /\ Fail(o)
                   /\ UNCHANGED <<gameProcs, created, tokenUsed>>
    /\ UNCHANGED <<driver, cfgVars, sideVars, kind, hasProfile, presentAtCall, launches, spawned,
                   processCloses, threadCloses, gateVars, toolVars, watchVars>>

\* open_game, lines 690-781: on success the target process exists and the
\* (thread, process) handle pair is owned by launch_game.
open_game ==
    /\ pc = "open_game"
    /\ \E o \in OpenOutcomes :
         /\ token' = open_game_handles(o).token
         /\ shell' = open_game_handles(o).shell
         /\ IF o = "ok"
              THEN /\ gameProcs < MaxProcs
                   /\ gameProcs' = gameProcs + 1
                   /\ created' = TRUE
                   /\ tokenUsed' = open_game_token
                   /\ pc' = IF disable_ac THEN "gate_load" ELSE "load_library"
                   /\ UNCHANGED result
              ELSE /\ Fail(o)
                   /\ UNCHANGED <<gameProcs, created, tokenUsed>>
    /\ UNCHANGED <<driver, cfgVars, sideVars, kind, hasProfile, presentAtCall, launches, spawned,
                   processCloses, threadCloses, gateVars, toolVars, watchVars>>

\* suspend, lines 638-658: fails before the NT call when the lookup fails.
suspend(ok, next) ==
    IF ok THEN suspends' = suspends + 1 /\ pc' = next /\ UNCHANGED result
          ELSE Fail("game.error.launch.unknown") /\ UNCHANGED suspends

\* resume, lines 664-684.
resume(ok, next) ==
    IF ok THEN resumes' = resumes + 1 /\ pc' = next /\ UNCHANGED result
          ELSE Fail("game.error.launch.unknown") /\ UNCHANGED resumes

\* wait_for_driver, lines 833-836: one poll of the first loop that ends it,
\* either by the `?` on an enumeration error or by seeing the driver.
wait_for_driver_load ==
    /\ pc = "gate_load"
    /\ \E enumOk \in BOOLEAN :
         IF ~enumOk THEN Fail("game.error.launch.unknown")
         ELSE /\ driver
              /\ pc' = "gate_suspend"
              /\ UNCHANGED result
    /\ UNCHANGED <<envVars, cfgVars, sideVars, kind, hasProfile, presentAtCall, launches, spawned,
                   handleVars, gateVars, toolVars, watchVars>>

\* wait_for_driver_suspend with the suspend call left out.
wait_for_driver_suspend_omitted ==
    /\ pc = "gate_suspend"
    /\ pc' = "gate_unload"
    /\ UNCHANGED <<envVars, cfgVars, sideVars, kind, hasProfile, presentAtCall, result, launches,
                   spawned, handleVars, gateVars, toolVars, watchVars>>

\* wait_for_driver, line 839.
wait_for_driver_suspend ==
    /\ pc = "gate_suspend"
    /\ \E ok \in BOOLEAN : suspend(ok, "gate_unload")
    /\ UNCHANGED <<envVars, cfgVars, sideVars, kind, hasProfile, presentAtCall, launches, spawned,
                   handleVars, resumes, threadResumes, toolVars, watchVars>>

wait_for_driver_unload_unpolled ==
    /\ pc = "gate_unload"
    /\ pc' = "gate_resume"
    /\ UNCHANGED <<envVars, cfgVars, sideVars, kind, hasProfile, presentAtCall, result, launches,
                   spawned, handleVars, gateVars, toolVars, watchVars>>

\* wait_for_driver, lines 841-843: one poll of the second loop that ends it.
wait_for_driver_unload ==
    /\ pc = "gate_unload"
    /\ \E enumOk \in BOOLEAN :
         IF ~enumOk THEN Fail("game.error.launch.unknown")
         ELSE /\ ~driver
              /\ pc' = "gate_resume"
              /\ UNCHANGED result
    /\ UNCHANGED <<envVars, cfgVars, sideVars, kind, hasProfile, presentAtCall, launches, spawned,
                   handleVars, gateVars, toolVars, watchVars>>

\* wait_for_driver_resume with the resume deferred to after the tool loop.
wait_for_driver_resume_deferred ==
    /\ pc = "gate_resume"
    /\ pc' = "load_library"
    /\ UNCHANGED <<envVars, cfgVars, sideVars, kind, hasProfile, presentAtCall, result, launches,
                   spawned, handleVars, gateVars, toolVars, watchVars>>

wait_for_driver_resume_repoll ==
    /\ pc = "gate_resume"
    /\ pc' = "gate_load"
    /\ UNCHANGED <<envVars, cfgVars, sideVars, kind, hasProfile, presentAtCall, result, launches,
                   spawned, handleVars, gateVars, toolVars, watchVars>>

\* wait_for_driver, line 845.
wait_for_driver_resume ==
    /\ pc = "gate_resume"
    /\ \E ok \in BOOLEAN : resume(ok, "load_library")
    /\ UNCHANGED <<envVars, cfgVars, sideVars, kind, hasProfile, presentAtCall, launches, spawned,
                   handleVars, suspends, threadResumes, toolVars, watchVars>>

\* launch_game, lines 560-574: the LoadLibraryA lookup.
launch_game_loader ==
    /\ pc = "load_library"
    /\ \E o \in LoaderOutcomes :
         IF o = "ok" THEN pc' = "pre_suspend" /\ UNCHANGED result
                     ELSE Fail(o)
    /\ UNCHANGED <<envVars, cfgVars, sideVars, kind, hasProfile, presentAtCall, launches, spawned,
                   handleVars, gateVars, toolVars, watchVars>>

\* launch_game_suspend with the suspend before the tool loop left out.
launch_game_suspend_omitted ==
    /\ pc = "pre_suspend"
    /\ pc' = "tools" /\ i' = 1 /\ UNCHANGED <<suspends, result>>
    /\ UNCHANGED <<envVars, cfgVars, sideVars, kind, hasProfile, presentAtCall, launches, spawned,
                   handleVars, resumes, threadResumes, injected, exeFailed, watchVars>>

\* launch_game_suspend with the resume of lines 615-619 placed before the
\* tool loop instead of after it.
launch_game_suspend_resumed ==
    /\ pc = "pre_suspend"
    /\ pc' = "tools" /\ i' = 1
    /\ IF ~disable_ac
         THEN suspends' = suspends + 1 /\ resumes' = resumes + 1
         ELSE UNCHANGED <<suspends, resumes>>
    /\ UNCHANGED <<envVars, cfgVars, sideVars, kind, hasProfile, presentAtCall, result, launches,
                   spawned, handleVars, threadResumes, injected, exeFailed, watchVars>>

\* launch_game, lines 576-580, and the entry into the tool loop.
launch_game_suspend ==
    /\ pc = "pre_suspend"
    /\ IF ~disable_ac
         THEN \E ok \in BOOLEAN :
                /\ suspend(ok, "tools")
                /\ i' = IF ok THEN 1 ELSE i
         ELSE pc' = "tools" /\ i' = 1 /\ UNCHANGED <<suspends, result>>
    /\ UNCHANGED <<envVars, cfgVars, sideVars, kind, hasProfile, presentAtCall, launches, spawned,
                   handleVars, resumes, threadResumes, injected, exeFailed, watchVars>>


\* inject_dll, lines 854-911, by the outcome of its OS calls: a failed
\* allocation makes the write fail; only a failed write or a failed thread
\* creation returns an error; the memory is freed when thread creation
\* failed or the thread completed in time.
inject_dll(o) ==
    [ err   |-> o \in {"alloc_fail", "write_fail", "thread_fail"},
      freed |-> o \in {"thread_fail", "ok"} ]

InLoop == pc = "tools" /\ i >= 1 /\ i <= Len(tools)

\* launch_game_tool_skip with `return Err` in place of `continue`.
launch_game_tool_skip_fatal ==
    /\ InLoop
    /\ tools[i] = "invalid"
    /\ Fail("backend.path.error.modification")
    /\ UNCHANGED <<envVars, cfgVars, sideVars, kind, hasProfile, presentAtCall, launches, spawned,
                   handleVars, gateVars, toolVars, watchVars>>

\* launch_game, lines 585-599: the three `continue` branches.
launch_game_tool_skip ==
    /\ InLoop
    /\ tools[i] = "invalid"
    /\ i' = i + 1
    /\ UNCHANGED <<envVars, cfgVars, sideVars, callVars, handleVars, gateVars, injected, exeFailed, watchVars>>

\* launch_game_tool_unknown with the entry injected like a dll.
launch_game_tool_unknown_injected ==
    /\ InLoop
    /\ tools[i] = "other"
    /\ i' = i + 1
    /\ injected' = Append(injected, i)
    /\ UNCHANGED <<envVars, cfgVars, sideVars, callVars, handleVars, gateVars, exeFailed, watchVars>>

\* launch_game, line 611: an extension other than dll / exe is warned about.
launch_game_tool_unknown ==
    /\ InLoop
    /\ tools[i] = "other"
    /\ i' = i + 1
    /\ UNCHANGED <<envVars, cfgVars, sideVars, callVars, handleVars, gateVars, injected, exeFailed, watchVars>>

\* launch_game_tool_exe with a failed open returned as an error.
launch_game_tool_exe_fatal ==
    /\ InLoop
    /\ tools[i] = "exe"
    /\ \E opened \in BOOLEAN :
         /\ exeFailed' = (exeFailed \/ ~opened)
         /\ IF opened THEN i' = i + 1 /\ UNCHANGED <<pc, result>>
                      ELSE Fail("game.error.launch.exe-fail") /\ UNCHANGED i
    /\ UNCHANGED <<envVars, cfgVars, sideVars, kind, hasProfile, presentAtCall, launches, spawned,
                   handleVars, gateVars, injected, watchVars>>

\* launch_game, lines 606-610: open_executable either opens the tool or
\* fails; its result is at most logged.
launch_game_tool_exe ==
    /\ InLoop
    /\ tools[i] = "exe"
    /\ \E opened \in BOOLEAN : exeFailed' = (exeFailed \/ ~opened)
    /\ i' = i + 1
    /\ UNCHANGED <<envVars, cfgVars, sideVars, callVars, handleVars, gateVars, injected, watchVars>>

\* launch_game, lines 603-605: inject_dll(..)? returns its error from
\* launch_game.
launch_game_tool_dll ==
    /\ InLoop
    /\ tools[i] = "dll"
    /\ injected' = Append(injected, i)
    /\ UNCHANGED exeFailed
    /\ \E o \in DllOutcomes :
         IF inject_dll(o).err
           THEN Fail("game.error.launch.dll-fail") /\ UNCHANGED i
           ELSE i' = i + 1 /\ UNCHANGED <<pc, result>>
    /\ UNCHANGED <<envVars, cfgVars, sideVars, kind, hasProfile, presentAtCall, launches, spawned,
                   handleVars, gateVars, watchVars>>

\* launch_game, lines 615-619, after the tool loop.
launch_game_resume ==
    /\ pc = "tools" /\ i > Len(tools)
    /\ IF ~disable_ac
         THEN \E ok \in BOOLEAN : resume(ok, "cleanup")
         ELSE pc' = "cleanup" /\ UNCHANGED <<resumes, result>>
    /\ UNCHANGED <<envVars, cfgVars, sideVars, kind, hasProfile, presentAtCall, launches, spawned,
                   handleVars, suspends, threadResumes, toolVars, watchVars>>

\* launch_game, lines 621-627: ResumeThread(thread), CloseHandle(process),
\* Ok(()).  The thread handle is not closed.
launch_game_cleanup ==
    /\ pc = "cleanup"
    /\ threadResumes' = threadResumes + 1
    /\ processCloses' = processCloses + 1
    /\ result' = "ok"
    /\ pc' = "done"
    /\ UNCHANGED <<envVars, cfgVars, sideVars, kind, hasProfile, presentAtCall, launches, spawned,
                   created, threadCloses, token, shell, tokenUsed, suspends, resumes,
                   toolVars, watchVars>>

\* ----------------------------------------------------------------- Watcher
watch_game_poll_open_blind(w) ==
    /\ watcher[w] = "wait_open"
    /\ watcher' = [watcher EXCEPT ![w] = "send_true"]
    /\ UNCHANGED <<envVars, cfgVars, sideVars, callVars, handleVars, gateVars, toolVars, statusLog>>

\* watch_game, lines 363-366: the poll that ends the first loop.
watch_game_poll_open(w) ==
    /\ watcher[w] = "wait_open"
    /\ find_process
    /\ watcher' = [watcher EXCEPT ![w] = "send_true"]
    /\ UNCHANGED <<envVars, cfgVars, sideVars, callVars, handleVars, gateVars, toolVars, statusLog>>

\* watch_game, line 369.
watch_game_send_true(w) ==
    /\ watcher[w] = "send_true"
    /\ statusLog' = Append(statusLog, TRUE)
    /\ watcher' = [watcher EXCEPT ![w] = "wait_close"]
    /\ UNCHANGED <<envVars, cfgVars, sideVars, callVars, handleVars, gateVars, toolVars>>

watch_game_poll_close_blind(w) ==
    /\ watcher[w] = "wait_close"
    /\ watcher' = [watcher EXCEPT ![w] = "send_false"]
    /\ UNCHANGED <<envVars, cfgVars, sideVars, callVars, handleVars, gateVars, toolVars, statusLog>>

\* watch_game, lines 372-374: the poll that ends the second loop.
watch_game_poll_close(w) ==
    /\ watcher[w] = "wait_close"
    /\ ~find_process
    /\ watcher' = [watcher EXCEPT ![w] = "send_false"]
    /\ UNCHANGED <<envVars, cfgVars, sideVars, callVars, handleVars, gateVars, toolVars, statusLog>>

\* watch_game, line 377; the thread ends.
watch_game_send_false(w) ==
    /\ watcher[w] = "send_false"
    /\ statusLog' = Append(statusLog, FALSE)
    /\ watcher' = [watcher EXCEPT ![w] = "done"]
    /\ UNCHANGED <<envVars, cfgVars, sideVars, callVars, handleVars, gateVars, toolVars>>

\* ----------------------------------------------------------- specification
Next ==
    \/ ExternalStart
    \/ ProcessExit
    \/ DriverLoad
    \/ DriverUnload
    \/ game__launch_check
    \/ game__launch_watch
    \/ cli_game__launch
    \/ open_game
    \/ wait_for_driver_load
    \/ wait_for_driver_suspend
    \/ wait_for_driver_unload
    \/ wait_for_driver_resume
    \/ launch_game_loader
    \/ launch_game_suspend
    \/ launch_game_tool_skip
    \/ launch_game_tool_unknown
    \/ launch_game_tool_exe
    \/ launch_game_tool_dll
    \/ launch_game_resume
    \/ launch_game_cleanup
    \/ \E w \in 1..MaxLaunches : watch_game_poll_open(w)
    \/ \E w \in 1..MaxLaunches : watch_game_send_true(w)
    \/ \E w \in 1..MaxLaunches : watch_game_poll_close(w)
    \/ \E w \in 1..MaxLaunches : watch_game_send_false(w)

Spec == Init /\ [][Next]_vars


\* --------------------------------------------------- inject_dll, by steps
\* The calls inject_dll makes, one action each, for a sequence of calls on
\* the same target process (one per dll entry of the tool loop).

DllFail == "game.error.launch.dll-fail"

\* inject_dll, lines 866-878: VirtualAllocEx; its result is not checked.
inject_dll_alloc ==
    /\ injPc \in {"idle", "ret"}
    /\ injCalls < MaxInjects
    /\ injCalls' = injCalls + 1
    /\ \E ok \in BOOLEAN :
         /\ mem' = IF ok THEN "allocated" ELSE "null"
         /\ regions' = IF ok THEN regions + 1 ELSE regions
         /\ injFail' = IF ok THEN "none" ELSE "alloc"
    /\ remote' = "none"
    /\ stale' = IF remote = "running" THEN stale + 1 ELSE stale
    /\ hRemote' = "none"
    /\ injRet' = "none"
    /\ injPc' = "write"
    /\ UNCHANGED injOthers

\* inject_dll_write with the result of WriteProcessMemory not checked.
inject_dll_write_unchecked ==
    /\ injPc = "write"
    /\ \E ok \in BOOLEAN :
         /\ injFail' = IF (ok /\ mem = "allocated") \/ injFail # "none"
                         THEN injFail ELSE "write"
         /\ injPc' = "thread"
         /\ UNCHANGED injRet
    /\ UNCHANGED <<injCalls, mem, regions, remote, stale, hRemote, injOthers>>

\* inject_dll, lines 880-891: WriteProcessMemory; a write to a null region
\* fails; on failure the function returns without freeing the region.
inject_dll_write ==
    /\ injPc = "write"
    /\ \E ok \in BOOLEAN :
         IF ok /\ mem = "allocated"
           THEN injPc' = "thread" /\ UNCHANGED <<injFail, injRet>>
           ELSE /\ injFail' = IF injFail = "none" THEN "write" ELSE injFail
                /\ injRet' = DllFail
                /\ injPc' = "ret"
    /\ UNCHANGED <<injCalls, mem, regions, remote, stale, hRemote, injOthers>>

\* inject_dll, lines 893-900: CreateRemoteThread; on failure the region is
\* freed and the error returned.
inject_dll_thread ==
    /\ injPc = "thread"
    /\ \E ok \in BOOLEAN :
         IF ok
           THEN /\ remote' = "running"
                /\ hRemote' = "open"
                /\ injPc' = "wait"
                /\ UNCHANGED <<mem, regions, injFail, injRet>>
           ELSE /\ mem' = "freed"
                /\ regions' = regions - 1
                /\ injFail' = "thread"
                /\ injRet' = DllFail
                /\ injPc' = "ret"
                /\ UNCHANGED <<remote, hRemote>>
    /\ UNCHANGED <<injCalls, stale, injOthers>>

\* The remote LoadLibraryA thread finishes in the target.
remote_thread_exit ==
    /\ remote = "running"
    /\ remote' = "exited"
    /\ UNCHANGED <<injPc, injCalls, mem, regions, stale, hRemote, injFail, injRet, injOthers>>

\* A remote thread left running by an earlier call finishes.
stale_thread_exit ==
    /\ stale > 0
    /\ stale' = stale - 1
    /\ UNCHANGED <<injPc, injCalls, mem, regions, remote, hRemote, injFail, injRet, injOthers>>

inject_dll_wait_freeing ==
    /\ injPc = "wait"
    /\ mem' = "freed"
    /\ regions' = regions - 1
    /\ injFail' = IF remote = "exited" THEN injFail ELSE "timeout"
    /\ injPc' = "close"
    /\ UNCHANGED <<injCalls, remote, stale, hRemote, injRet, injOthers>>

\* inject_dll, lines 902-905: WaitForSingleObject(thread, 2000); the region
\* is freed only on WAIT_OBJECT_0, and a wait that ends otherwise changes
\* nothing else.
inject_dll_wait ==
    /\ injPc = "wait"
    /\ IF remote = "exited"
         THEN /\ mem' = "freed"
              /\ regions' = regions - 1
              /\ UNCHANGED injFail
         ELSE /\ injFail' = "timeout"
              /\ UNCHANGED <<mem, regions>>
    /\ injPc' = "close"
    /\ UNCHANGED <<injCalls, remote, stale, hRemote, injRet, injOthers>>

\* inject_dll, lines 907-910: CloseHandle(thread); Ok(()).
inject_dll_close ==
    /\ injPc = "close"
    /\ hRemote' = "closed"
    /\ injRet' = "ok"
    /\ injPc' = "ret"
    /\ UNCHANGED <<injCalls, mem, regions, remote, stale, injFail, injOthers>>

NextInject ==
    \/ inject_dll_alloc
    \/ inject_dll_write
    \/ inject_dll_thread
    \/ remote_thread_exit
    \/ stale_thread_exit
    \/ inject_dll_wait
    \/ inject_dll_close

\* The launch model is at rest while inject_dll is examined.
InitAtRest == Init /\ selected = FALSE /\ disable_ac = FALSE /\ tools = <<>>

SpecInject == InitAtRest /\ [][NextInject]_vars

\* ------------------------------------------- game__is_open, concurrently
\* game__launch, lines 399-409: the guard of the SelectedProfile mutex taken
\* at line 400 is borrowed by `profile` and lives until game__launch
\* returns, launch_game included.
ProfileLocked == kind = "gui" /\ pc \notin {"idle", "watch", "done"}

\* Another thread calls game__is_open.
game__is_open_call ==
    /\ qpc \in {"idle", "ret"}
    /\ qpc' = "lock"
    /\ UNCHANGED <<qResult, queryOthers>>

\* game__is_open, lines 341-346: profile.0.lock() returns once the mutex is
\* free; the process table is then read and the guard dropped.
game__is_open_locked ==
    /\ qpc = "lock"
    /\ ~ProfileLocked
    /\ qResult' = game__is_open
    /\ qpc' = "ret"
    /\ UNCHANGED queryOthers

\* The launch thread of the desktop application, the environment, and a
\* second thread calling game__is_open.
NextQuery ==
    \/ game__is_open_call
    \/ game__is_open_locked
    \/ ExternalStart
    \/ ProcessExit
    \/ DriverLoad
    \/ DriverUnload
    \/ game__launch_check
    \/ game__launch_watch
    \/ open_game
    \/ wait_for_driver_load
    \/ wait_for_driver_suspend
    \/ wait_for_driver_unload
    \/ wait_for_driver_resume
    \/ launch_game_loader
    \/ launch_game_suspend
    \/ launch_game_tool_skip
    \/ launch_game_tool_unknown
    \/ launch_game_tool_exe
    \/ launch_game_tool_dll
    \/ launch_game_resume
    \/ launch_game_cleanup

SpecQuery == Init /\ [][NextQuery]_vars

\* ------------------------------------------------------------ locate_game
\* File contents are sequences of one-character strings; "FF" stands for a
\* byte that is not valid UTF-8 and "FFFD" for the replacement character.
Digit == {"0", "1", "2", "3", "4", "5", "6", "7", "8", "9"}
OS == <<"O", "S">>
CN == <<"C", "N">>
REL == <<"R", "E", "L">>
CB == <<"C", "B">>
Win == <<"W", "i", "n">>
Dot == <<".">>

ResolveError == "backend.version.resolve.error"

\* The files the scan is run on: an optional lead, a token-like run made of
\* a region, a channel, "Win" and three dot-separated digit runs, and an
\* optional second token after it.
Leads == {<<>>, <<"x", "FF">>}
Regions == {OS, CN, <<"U", "S">>, <<"O", "5">>}
Channels == {REL, CB, <<"D", "E", "V">>}
DigitChoices == {"0", "3"}
DigitRuns == SeqsUpTo(DigitChoices, MaxDigits)
Seconds == {<<>>, CN \o CB \o Win \o <<"9", ".", "9", ".", "9">>}
FileContents ==
    {lead \o r \o c \o Win \o ma \o Dot \o mi \o Dot \o pa \o second :
        lead \in Leads, r \in Regions, c \in Channels,
        ma \in DigitRuns \ {<<>>}, mi \in DigitRuns \ {<<>>}, pa \in DigitRuns,
        second \in Seconds}

\* The executable and its sibling UnityPlayer.dll, which may not exist (dll
\* is then <<>>, else it holds the content). Without the sibling every
\* content is tried for the executable; with it, a few contents for each.
FewContents ==
    {<<"x">> \o OS \o REL \o Win \o <<"3", ".", "0", ".", "0">>,
     CN \o CB \o Win \o <<"9", ".", "9", ".", "9">>,
     <<"x", "FF">>}
FewPairs ==
    {[dll |-> d, exe |-> e] :
        d \in {<<>>} \cup {<<c>> : c \in FewContents}, e \in FewContents}
FilePairs == {[dll |-> <<>>, exe |-> c] : c \in FileContents} \cup FewPairs
OnePath == {"C:/Game/Game.exe"}
TwoPaths == {"C:/Game/Game.exe", "D:/Copy/Game.exe"}

\* String::from_utf8_lossy, line 472: invalid bytes become U+FFFD, every
\* other character is kept.
from_utf8_lossy(bytes) ==
    [k \in DOMAIN bytes |-> IF bytes[k] = "FF" THEN "FFFD" ELSE bytes[k]]

\* s has the literal lit at position p.
has(s, p, lit) ==
    /\ p + Len(lit) - 1 <= Len(s)
    /\ SubSeq(s, p, p + Len(lit) - 1) = lit

\* VERSION_STRING_REGEX, the group ([0-9]*): the position after the longest
\* run of digits that starts at p.
patch_run_lazy(s, p) == p

patch_run(s, p) ==
    CHOOSE q \in p..(Len(s) + 1) :
        /\ \A k \in p..(q - 1) : s[k] \in Digit
        /\ q = Len(s) + 1 \/ s[q] \notin Digit

\* VERSION_STRING_REGEX, lines 26-27, tried at position p: the position
\* after the match, 0 when there is no match at p.
match_at(s, p) ==
    LET chLen == IF has(s, p + 2, REL) THEN 3
                 ELSE IF has(s, p + 2, CB) THEN 2 ELSE 0
        w == p + 2 + chLen
    IN  IF /\ has(s, p, OS) \/ has(s, p, CN)
           /\ chLen > 0
           /\ has(s, w, Win)
           /\ w + 6 <= Len(s)
           /\ s[w + 3] \in Digit \ {"0"}
           /\ s[w + 4] = "."
           /\ s[w + 5] \in Digit
           /\ s[w + 6] = "."
        THEN patch_run(s, w + 7)
        ELSE 0

\* Regex::captures followed by get(0), lines 475-481: the leftmost match,
\* <<>> when there is none.
captures(s) ==
    LET starts == {p \in 1..Len(s) : match_at(s, p) # 0}
    IN  IF starts = {} THEN <<>>
        ELSE LET p == CHOOSE x \in starts : \A y \in starts : x <= y
             IN  SubSeq(s, p, match_at(s, p) - 1)

\* scanned_file with the executable read when UnityPlayer.dll has no match.
scanned_file_fallback(f) ==
    IF f.dll # <<>> /\ captures(from_utf8_lossy(f.dll[1])) # <<>>
    THEN f.dll[1] ELSE f.exe

\* locate_game, lines 464-469: UnityPlayer.dll is read if it exists, the
\* executable otherwise.
scanned_file(f) == IF f.dll # <<>> THEN f.dll[1] ELSE f.exe

\* locate_game, lines 458-472, called with one of `paths` while the disk
\* holds one of `pairs`: the path has no parent or the file cannot be read
\* (ok = FALSE), or the file is loaded and converted.
locate_game_read(pairs, paths) ==
    /\ vpc = "idle"
    /\ version_string' = <<>>
    /\ \E path \in paths : vpath' = path
    /\ \E ok \in BOOLEAN :
        IF ok
        THEN /\ \E f \in pairs :
                 /\ files' = <<f>>
                 /\ game_data' = from_utf8_lossy(scanned_file(f))
             /\ vpc' = "match"
             /\ verRet' = "none"
        ELSE /\ files' = <<>>
             /\ game_data' = <<>>
             /\ vpc' = "done"
             /\ verRet' = ResolveError
    /\ UNCHANGED <<db_versions, verOthers>>

\* locate_game, lines 475-481.
locate_game_match ==
    /\ vpc = "match"
    /\ version_string' = captures(game_data)
    /\ IF captures(game_data) = <<>>
       THEN vpc' = "done" /\ verRet' = ResolveError
       ELSE vpc' = "lookup" /\ verRet' = "none"
    /\ UNCHANGED <<game_data, files, vpath, db_versions, verOthers>>

\* locate_game_lookup without the check for an existing row.
locate_game_lookup_unchecked ==
    /\ vpc = "lookup"
    /\ \E ok \in BOOLEAN :
        IF ~ok THEN vpc' = "done" /\ verRet' = "database.query-failed"
        ELSE vpc' = "save" /\ verRet' = "none"
    /\ UNCHANGED <<game_data, version_string, files, vpath, db_versions, verOthers>>

\* locate_game, lines 487-497: the query fails, or finds a row with the
\* version, or finds none.
locate_game_lookup ==
    /\ vpc = "lookup"
    /\ \E ok \in BOOLEAN :
        IF ~ok THEN vpc' = "done" /\ verRet' = "database.query-failed"
        ELSE IF \E r \in db_versions : r.version = version_string
        THEN vpc' = "done" /\ verRet' = "backend.version.resolve.exists"
        ELSE vpc' = "save" /\ verRet' = "none"
    /\ UNCHANGED <<game_data, version_string, files, vpath, db_versions, verOthers>>

\* Version::save, lines 110-125: insert, or update the path of the row with
\* the same version.
Version_save_rows(rows, version, path) ==
    {r \in rows : r.version # version} \cup {[version |-> version, path |-> path]}

\* locate_game, lines 500-510: Version::save of the version and the path.
locate_game_save ==
    /\ vpc = "save"
    /\ vpc' = "done"
    /\ \E ok \in BOOLEAN :
        IF ok
        THEN /\ db_versions' = Version_save_rows(db_versions, version_string, vpath)
             /\ verRet' = "ok"
        ELSE /\ UNCHANGED db_versions
             /\ verRet' = "database.query-failed"
    /\ UNCHANGED <<game_data, version_string, files, vpath, verOthers>>

\* The call has returned; the next one starts afresh.
locate_game_return ==
    /\ vpc = "done"
    /\ vpc' = "idle"
    /\ game_data' = <<>>
    /\ version_string' = <<>>
    /\ verRet' = "none"
    /\ files' = <<>>
    /\ vpath' = "none"
    /\ UNCHANGED <<db_versions, verOthers>>

\* One locate_game call on each of the file contents.
NextVersion ==
    \/ locate_game_read(FilePairs, OnePath)
    \/ locate_game_match
    \/ locate_game_lookup
    \/ locate_game_save

SpecVersion == InitAtRest /\ [][NextVersion]_vars

\* locate_game calls one after the other, on a few file contents found at
\* either of two paths.
NextLocate ==
    \/ locate_game_return
    \/ locate_game_read(FewPairs, TwoPaths)
    \/ locate_game_match
    \/ locate_game_lookup
    \/ locate_game_save

SpecLocate == InitAtRest /\ [][NextLocate]_vars

\* ------------------------------------------- Profile::save, load_profiles
\* A tool is modelled by its id, a sequence of one-character strings; the
\* other columns of its row are copied unchanged by load_tools.
IdChars == {"a", ","}
ToolIds == SeqsUpTo(IdChars, MaxIdLen)
\* An id no row of `tools` has.
MissingTool == <<"z">>
StoredVersions ==
    {OS \o REL \o Win \o <<"3", ".", "0", ".", "0">>,
     CN \o CB \o Win \o <<"9", ".", "9", ".", "9">>}
ProfileId == "p"

\* Profile::save, lines 50-55: join(",").
RECURSIVE join(_)
join(ids) ==
    IF ids = <<>> THEN <<>>
    ELSE IF Len(ids) = 1 THEN ids[1]
    ELSE ids[1] \o <<",">> \o join(Tail(ids))

\* load_profiles, line 295: str::split(','); the empty string gives one
\* empty piece.
RECURSIVE split(_)
split(s) ==
    LET commas == {k \in 1..Len(s) : s[k] = ","}
    IN  IF commas = {} THEN <<s>>
        ELSE LET k == CHOOSE x \in commas : \A y \in commas : x <= y
             IN  <<SubSeq(s, 1, k - 1)>> \o split(SubSeq(s, k + 1, Len(s)))

\* A row of `tools` is inserted (by the tool installer, outside this code).
tool_installed ==
    /\ ppc = "idle"
    /\ Cardinality(db_tools) < MaxStored
    /\ \E id \in ToolIds \ db_tools : db_tools' = db_tools \cup {id}
    /\ UNCHANGED <<ppc, db_versions, db_profiles, profile, profiles, storeOthers>>

\* Version::save of a version that has no row yet.
Version_save ==
    /\ ppc = "idle"
    /\ \E version \in StoredVersions :
        /\ \A r \in db_versions : r.version # version
        /\ db_versions' = Version_save_rows(db_versions, version, "path")
    /\ UNCHANGED <<ppc, db_tools, db_profiles, profile, profiles, storeOthers>>

\* Profile::save, lines 46-73: the tool ids are joined and the row is
\* inserted or, on a conflicting id, updated.
Profile_save ==
    /\ ppc = "idle"
    /\ \E version \in StoredVersions,
          tls \in SeqsUpTo(db_tools \cup {MissingTool}, MaxTools) :
        /\ profile' = <<[id |-> ProfileId, version |-> version, tools |-> tls]>>
        /\ db_profiles' = {r \in db_profiles : r.id # ProfileId} \cup
               {[id |-> ProfileId, version |-> version, tools |-> <<join(tls)>>]}
    /\ ppc' = "saved"
    /\ UNCHANGED <<db_tools, db_versions, profiles, storeOthers>>

\* load_profiles, lines 263-327 (after load_tools and load_versions of
\* load_all): rows whose version is unknown are skipped, ids without a row
\* in `tools` are dropped.
load_profile(row) ==
    [id |-> row.id,
     version |-> row.version,
     tools |-> SelectSeq(split(row.tools[1]), LAMBDA id : id \in db_tools)]

load_profiles ==
    /\ ppc \in {"saved", "loaded"}
    /\ profiles' =
           IF \E r \in db_profiles, v \in db_versions : v.version = r.version
           THEN <<load_profile(CHOOSE r \in db_profiles : TRUE)>>
           ELSE <<>>
    /\ ppc' = "loaded"
    /\ UNCHANGED <<db_tools, db_versions, db_profiles, profile, storeOthers>>

NextStore ==
    \/ tool_installed
    \/ Version_save
    \/ Profile_save
    \/ load_profiles

SpecStore == InitAtRest /\ [][NextStore]_vars

\* ------------------------------------------------ launch_game, scheduled
\* The launch thread and its environment. The thread is scheduled fairly:
\* every step of launch_game that is not a poll of wait_for_driver is taken
\* once it can be. The polls sleep and retry, so nothing forces them to
\* succeed: the driver is loaded and unloaded by the system as it pleases.
LaunchProgress ==
    \/ game__launch_watch
    \/ open_game
    \/ wait_for_driver_suspend
    \/ wait_for_driver_resume
    \/ launch_game_loader
    \/ launch_game_suspend
    \/ launch_game_tool_skip
    \/ launch_game_tool_unknown
    \/ launch_game_tool_exe
    \/ launch_game_tool_dll
    \/ launch_game_resume
    \/ launch_game_cleanup

NextGate ==
    \/ ExternalStart
    \/ ProcessExit
    \/ DriverLoad
    \/ DriverUnload
    \/ game__launch_check
    \/ wait_for_driver_load
    \/ wait_for_driver_unload
    \/ LaunchProgress

SpecGate == Init /\ [][NextGate]_vars /\ WF_vars(LaunchProgress)

\* ---------------------------------------------------------- driver_loaded
\* A loaded driver is described by its base name: it starts with
\* GAME_DRIVER_NAME ("match"), it does not ("other"), it cannot be fetched
\* ("noname", GetDeviceDriverBaseNameA returns 0) or it is not UTF-8
\* ("nonutf8").
DriverNames == {"match", "other", "noname", "nonutf8"}
PtrSizes == {4, 8}
\* The `drivers` array has 1024 entries in the code; it is scaled down here
\* so that a driver list can exceed it.
BufferEntries == 2
\* size_of::<u32>(), line 800: the buffer size passed to EnumDeviceDrivers.
CbPassed == 4

\* driver_loaded is called while some drivers are loaded.
driver_loaded_call ==
    /\ dpc \in {"idle", "ret"}
    /\ \E l \in SeqsUpTo(DriverNames, MaxDrivers), p \in PtrSizes, ok \in BOOLEAN :
        /\ loaded' = l
        /\ ptrSize' = p
        /\ enumSucceeds' = ok
    /\ needed' = 0
    /\ drivers' = [k \in 1..BufferEntries |-> 0]
    /\ drvRet' = "none"
    /\ dpc' = "enum"
    /\ UNCHANGED drvOthers

\* The entries EnumDeviceDrivers writes when it is given cb bytes: as many
\* load addresses as fit.
EnumDeviceDrivers(cb) ==
    [k \in 1..BufferEntries |->
        IF k <= Len(loaded) /\ k * ptrSize <= cb THEN k ELSE 0]

\* driver_loaded, lines 796-807: EnumDeviceDrivers with cb = 4, then the
\* under-allocation check against the size of the whole array.
driver_loaded_enum ==
    /\ dpc = "enum"
    /\ IF ~enumSucceeds
       THEN /\ drvRet' = "error" /\ dpc' = "ret"
            /\ UNCHANGED <<needed, drivers>>
       ELSE /\ needed' = Len(loaded) * ptrSize
            /\ drivers' = EnumDeviceDrivers(CbPassed)
            /\ IF Len(loaded) * ptrSize > BufferEntries * ptrSize
               THEN drvRet' = "error" /\ dpc' = "ret"
               ELSE drvRet' = "none" /\ dpc' = "scan"
    /\ UNCHANGED <<loaded, ptrSize, enumSucceeds, drvOthers>>

\* driver_loaded, lines 810-827: the first needed / size_of(pointer) entries
\* of the array are looked up; a null entry has no base name.
driver_loaded_scan ==
    /\ dpc = "scan"
    /\ LET driver_count == needed \div ptrSize
           found == \E k \in 1..BufferEntries :
                        /\ k <= driver_count
                        /\ drivers[k] # 0
                        /\ loaded[drivers[k]] = "match"
       IN  drvRet' = IF found THEN "true" ELSE "false"
    /\ dpc' = "ret"
    /\ UNCHANGED <<loaded, ptrSize, enumSucceeds, needed, drivers, drvOthers>>

NextDriver ==
    \/ driver_loaded_call
    \/ driver_loaded_enum
    \/ driver_loaded_scan

SpecDriver == InitAtRest /\ [][NextDriver]_vars

\* ----------------------------------------------------------- sniffer__run
SniffCalls == 1..MaxSniffCalls

\* The call holds a receiver of GAME_STATUS, or its listener task does.
HasListener(c) == spc[c] \in {"run", "spawn", "set"} \/ tpc[c] \in {"wait", "borrow"}

\* run_sniffer has succeeded for the call and its shutdown hook has not been
\* signalled.
SnifferActive(c) == spc[c] \in {"spawn", "set"} \/ tpc[c] \in {"wait", "borrow", "hook"}

\* The Watcher writes the next value to GAME_STATUS: true when the game is
\* seen, false when it is gone.
status_send ==
    /\ status' = ~status
    /\ sent' = TRUE
    /\ pending' = [c \in SniffCalls |-> IF HasListener(c) THEN TRUE ELSE pending[c]]
    /\ owed' = [c \in SniffCalls |->
                   IF status /\ SnifferActive(c) THEN TRUE ELSE owed[c]]
    /\ UNCHANGED <<SNIFFER_RUNNING, spc, tpc, sniffOthers>>

\* sniffer__run, lines 19-24: the flag is read under its lock, which is
\* released at once; then the static receiver is cloned, and the clone has
\* seen no write made since the channel was created.
sniffer__run_check(c) ==
    /\ spc[c] = "idle"
    /\ IF SNIFFER_RUNNING
       THEN spc' = [spc EXCEPT ![c] = "done"] /\ UNCHANGED pending
       ELSE /\ spc' = [spc EXCEPT ![c] = "run"]
            /\ pending' = [pending EXCEPT ![c] = sent]
    /\ UNCHANGED <<SNIFFER_RUNNING, status, sent, tpc, owed, sniffOthers>>

\* sniffer__run, lines 27-30: run_sniffer().await.
sniffer__run_start(c) ==
    /\ spc[c] = "run"
    /\ \E ok \in BOOLEAN :
        spc' = [spc EXCEPT ![c] = IF ok THEN "spawn" ELSE "done"]
    /\ UNCHANGED <<SNIFFER_RUNNING, status, sent, tpc, pending, owed, sniffOthers>>

\* sniffer__run, lines 33-80: the tasks are spawned.
sniffer__run_spawn(c) ==
    /\ spc[c] = "spawn"
    /\ spc' = [spc EXCEPT ![c] = "set"]
    /\ tpc' = [tpc EXCEPT ![c] = "wait"]
    /\ UNCHANGED <<SNIFFER_RUNNING, status, sent, pending, owed, sniffOthers>>

\* sniffer__run, lines 82-85: the flag is set and the call returns.
sniffer__run_set(c) ==
    /\ spc[c] = "set"
    /\ SNIFFER_RUNNING' = TRUE
    /\ spc' = [spc EXCEPT ![c] = "done"]
    /\ UNCHANGED <<status, sent, tpc, pending, owed, sniffOthers>>

\* Listener task, line 63: changed() returns once there is a write the
\* receiver has not seen, and marks it seen.
listener_changed(c) ==
    /\ tpc[c] = "wait"
    /\ pending[c]
    /\ pending' = [pending EXCEPT ![c] = FALSE]
    /\ tpc' = [tpc EXCEPT ![c] = "borrow"]
    /\ UNCHANGED <<SNIFFER_RUNNING, status, sent, spc, owed, sniffOthers>>

\* Listener task, lines 66-69: the value the channel holds now is read.
listener_borrow(c) ==
    /\ tpc[c] = "borrow"
    /\ tpc' = [tpc EXCEPT ![c] = IF status THEN "wait" ELSE "hook"]
    /\ UNCHANGED <<SNIFFER_RUNNING, status, sent, spc, pending, owed, sniffOthers>>

\* Listener task, lines 73-75: the shutdown hook is signalled.
listener_shutdown(c) ==
    /\ tpc[c] = "hook"
    /\ tpc' = [tpc EXCEPT ![c] = "unset"]
    /\ owed' = [owed EXCEPT ![c] = FALSE]
    /\ UNCHANGED <<SNIFFER_RUNNING, status, sent, spc, pending, sniffOthers>>

\* Listener task, line 78: the flag is unset and the task ends.
listener_unset(c) ==
    /\ tpc[c] = "unset"
    /\ SNIFFER_RUNNING' = FALSE
    /\ tpc' = [tpc EXCEPT ![c] = "done"]
    /\ UNCHANGED <<status, sent, spc, pending, owed, sniffOthers>>

SnifferStep(c) ==
    \/ sniffer__run_start(c)
    \/ sniffer__run_spawn(c)
    \/ sniffer__run_set(c)
    \/ listener_changed(c)
    \/ listener_borrow(c)
    \/ listener_shutdown(c)
    \/ listener_unset(c)

NextSniffer ==
    \/ status_send
    \/ \E c \in SniffCalls : sniffer__run_check(c)
    \/ \E c \in SniffCalls : SnifferStep(c)

\* The calls and their tasks are scheduled fairly; nothing forces the
\* Watcher to write, or a command to be called.
SpecSniffer ==
    InitAtRest /\ [][NextSniffer]_vars /\ \A c \in SniffCalls : WF_vars(SnifferStep(c))

\* ------------------------------------------------------- profile commands
ProfCalls == 1..MaxProfCalls
ProfileIds == {"p", "q"}

\* GameManager::get_profile, lines 150-155.
get_profile(id) == id \in gm_profiles

\* A call returns.
CmdReturned(c, ret) == [cmd EXCEPT ![c].at = "done", ![c].ret = ret]

\* main.rs, setup: load_all fills the GameManager from the storage, the
\* persistent state is read from state.json, and SelectedProfile::new
\* (state.rs, lines 47-59) keeps the persisted profile if the GameManager
\* knows it.
app_setup ==
    /\ ~booted
    /\ booted' = TRUE
    /\ \E known \in SUBSET ProfileIds, persisted \in ProfileIds \cup {"none"} :
        /\ gm_profiles' = known
        /\ saved' = known
        /\ GLOBAL_STATE' = persisted
        /\ SelectedProfile' = IF persisted \in known THEN persisted ELSE "none"
    /\ UNCHANGED <<selHolder, gsHolder, cmd, profOthers>>

\* The frontend invokes a command, or the command line saves a profile.
profile_invoke(c) ==
    /\ booted
    /\ cmd[c].at \in {"idle", "done"}
    /\ \E op \in {"new", "set", "save"}, id \in ProfileIds :
        cmd' = [cmd EXCEPT ![c] =
                   [op |-> op, id |-> id, ret |-> "none",
                    at |-> IF op = "set" THEN "lookup" ELSE "save"]]
    /\ UNCHANGED <<booted, gm_profiles, saved, GLOBAL_STATE, SelectedProfile,
                   selHolder, gsHolder, profOthers>>

\* profile__new_profile, lines 21-24: the row is written, or the command
\* returns its error.
profile__new_profile_save(c) ==
    /\ cmd[c].op = "new" /\ cmd[c].at = "save"
    /\ \/ /\ saved' = saved \cup {cmd[c].id}
          /\ cmd' = [cmd EXCEPT ![c].at = "lock_sel"]
       \/ /\ cmd' = CmdReturned(c, "unknown")
          /\ UNCHANGED saved
    /\ UNCHANGED <<booted, gm_profiles, GLOBAL_STATE, SelectedProfile,
                   selHolder, gsHolder, profOthers>>

\* profile__new_profile, line 27: state.0.lock().
profile__new_profile_lock(c) ==
    /\ cmd[c].op = "new" /\ cmd[c].at = "lock_sel"
    /\ selHolder = 0
    /\ selHolder' = c
    /\ cmd' = [cmd EXCEPT ![c].at = "lock_gs"]
    /\ UNCHANGED <<booted, gm_profiles, saved, GLOBAL_STATE, SelectedProfile,
                   gsHolder, profOthers>>

\* profile__new_profile_write, were the persistent state left as it is.
profile__new_profile_write_unpersisted(c) ==
    /\ cmd[c].op = "new" /\ cmd[c].at = "lock_gs"
    /\ gsHolder = 0
    /\ IF GLOBAL_STATE = "none" \/ SelectedProfile = "none"
       THEN /\ UNCHANGED GLOBAL_STATE
            /\ SelectedProfile' = cmd[c].id
       ELSE UNCHANGED <<GLOBAL_STATE, SelectedProfile>>
    /\ selHolder' = 0
    /\ cmd' = CmdReturned(c, "ok")
    /\ UNCHANGED <<booted, gm_profiles, saved, gsHolder, profOthers>>

\* profile__new_profile, lines 30-40: GLOBAL_STATE.write(), the two writes
\* when either of the two is unset, and the return that drops both guards.
profile__new_profile_write(c) ==
    /\ cmd[c].op = "new" /\ cmd[c].at = "lock_gs"
    /\ gsHolder = 0
    /\ IF GLOBAL_STATE = "none" \/ SelectedProfile = "none"
       THEN /\ GLOBAL_STATE' = cmd[c].id
            /\ SelectedProfile' = cmd[c].id
       ELSE UNCHANGED <<GLOBAL_STATE, SelectedProfile>>
    /\ selHolder' = 0
    /\ cmd' = CmdReturned(c, "ok")
    /\ UNCHANGED <<booted, gm_profiles, saved, gsHolder, profOthers>>

\* profile__set_profile, lines 50-56: the lookup in the GameManager.
profile__set_profile_lookup(c) ==
    /\ cmd[c].op = "set" /\ cmd[c].at = "lookup"
    /\ cmd' = IF get_profile(cmd[c].id)
              THEN [cmd EXCEPT ![c].at = "lock_gs"]
              ELSE CmdReturned(c, "bad-id")
    /\ UNCHANGED <<booted, gm_profiles, saved, GLOBAL_STATE, SelectedProfile,
                   selHolder, gsHolder, profOthers>>

\* profile__set_profile, lines 59-61: GLOBAL_STATE.write() and the write of
\* the persistent state; the guard lives to the end of the function.
profile__set_profile_persist(c) ==
    /\ cmd[c].op = "set" /\ cmd[c].at = "lock_gs"
    /\ gsHolder = 0
    /\ gsHolder' = c
    /\ GLOBAL_STATE' = cmd[c].id
    /\ cmd' = [cmd EXCEPT ![c].at = "lock_sel"]
    /\ UNCHANGED <<booted, gm_profiles, saved, SelectedProfile, selHolder, profOthers>>

\* profile__set_profile, lines 64-67: state.0.lock(), the write of the
\* selected profile, and the return that drops both guards.
profile__set_profile_select(c) ==
    /\ cmd[c].op = "set" /\ cmd[c].at = "lock_sel"
    /\ selHolder = 0
    /\ SelectedProfile' = cmd[c].id
    /\ gsHolder' = 0
    /\ cmd' = CmdReturned(c, "ok")
    /\ UNCHANGED <<booted, gm_profiles, saved, GLOBAL_STATE, selHolder, profOthers>>

\* GameManager::save_profile, lines 158-165: the profile gets an id and its
\* row is written; `profiles` is not touched.
save_profile(c) ==
    /\ cmd[c].op = "save" /\ cmd[c].at = "save"
    /\ \/ /\ saved' = saved \cup {cmd[c].id}
          /\ cmd' = CmdReturned(c, "ok")
       \/ /\ cmd' = CmdReturned(c, "error")
          /\ UNCHANGED saved
    /\ UNCHANGED <<booted, gm_profiles, GLOBAL_STATE, SelectedProfile,
                   selHolder, gsHolder, profOthers>>

NextProfile ==
    \/ app_setup
    \/ \E c \in ProfCalls : profile_invoke(c)
    \/ \E c \in ProfCalls : profile__new_profile_save(c)
    \/ \E c \in ProfCalls : profile__new_profile_lock(c)
    \/ \E c \in ProfCalls : profile__new_profile_write(c)
    \/ \E c \in ProfCalls : profile__set_profile_lookup(c)
    \/ \E c \in ProfCalls : profile__set_profile_persist(c)
    \/ \E c \in ProfCalls : profile__set_profile_select(c)
    \/ \E c \in ProfCalls : save_profile(c)

SpecProfile == InitAtRest /\ [][NextProfile]_vars

\* The call waits for a lock that the other call holds.
WaitsFor(c, d) ==
    \/ cmd[c].op = "new" /\ cmd[c].at = "lock_gs" /\ gsHolder = d
    \/ cmd[c].at = "lock_sel" /\ selHolder = d

\* -------------------------------------------------------- open_executable
Dirs == 1..MaxDirs

\* open_executable, line 152: the working directory is stored, or reading it
\* fails.
open_executable_call ==
    /\ opc \in {"idle", "ret"}
    /\ \E dir \in Dirs : folder' = dir
    /\ \/ /\ cwd' = current_dir
          /\ opc' = "resolve"
          /\ openRet' = "none"
       \/ /\ opc' = "ret"
          /\ openRet' = "Err"
          /\ UNCHANGED cwd
    /\ UNCHANGED <<current_dir, openOthers>>

\* open_executable, line 155: resolve_path(path)?.
open_executable_resolve ==
    /\ opc = "resolve"
    /\ \/ opc' = "switch" /\ UNCHANGED openRet
       \/ opc' = "ret" /\ openRet' = "Err"
    /\ UNCHANGED <<current_dir, cwd, folder, openOthers>>

\* open_executable, lines 158-161: set_current_dir(folder)?.
open_executable_switch ==
    /\ opc = "switch"
    /\ \/ /\ current_dir' = folder
          /\ opc' = "open"
          /\ UNCHANGED openRet
       \/ /\ opc' = "ret"
          /\ openRet' = "Err"
          /\ UNCHANGED current_dir
    /\ UNCHANGED <<cwd, folder, openOthers>>

\* open_executable, lines 164-170: open::that, and the return of
\* OpenResult::Failed when it fails.
open_executable_open ==
    /\ opc = "open"
    /\ \/ opc' = "restore" /\ UNCHANGED openRet
       \/ opc' = "ret" /\ openRet' = "Failed"
    /\ UNCHANGED <<current_dir, cwd, folder, openOthers>>

\* open_executable, lines 173-175: set_current_dir(cwd)? and Success.
open_executable_restore ==
    /\ opc = "restore"
    /\ \/ /\ current_dir' = cwd
          /\ openRet' = "Success"
       \/ /\ openRet' = "Err"
          /\ UNCHANGED current_dir
    /\ opc' = "ret"
    /\ UNCHANGED <<cwd, folder, openOthers>>

NextOpen ==
    \/ open_executable_call
    \/ open_executable_resolve
    \/ open_executable_switch
    \/ open_executable_open
    \/ open_executable_restore

SpecOpen == InitAtRest /\ [][NextOpen]_vars

\* --------------------------------------------------------------- load_all
\* The ids and versions the tables are filled from. The last of each set is
\* an id that a row may refer to and no row carries.
TableTools == {<<"a">>, <<"b">>}
TableMod == <<"m">>
TableVersion == "v"
NoTool == <<"z">>
NoMod == <<"n">>
NoVersion == "w"

\* The contents of `mods`: no row, or the one mod with its tool.
ModTables ==
    {{}} \cup {{[id |-> TableMod, tool |-> t]} : t \in TableTools \cup {NoTool}}

\* The contents of `profiles`: no row, or one row as Profile::save writes it.
ProfileTables ==
    {{}} \cup
    {{[version |-> v, tools |-> join(tls), mods |-> join(mds)]} :
        v \in {TableVersion, NoVersion},
        tls \in {<<>>, <<<<"b">>, NoTool>>, <<<<"a">>, <<"b">>>>},
        mds \in {<<TableMod>>, <<NoMod, TableMod>>}}

\* While no load_all is running, one of the tables is rewritten (by a
\* command of the launcher, or by an installer).
storage_write ==
    /\ lpc \in {"idle", "ok", "err"}
    /\ \/ /\ tbl_tools' \in SUBSET TableTools \ {tbl_tools}
          /\ UNCHANGED <<tbl_mods, tbl_versions, tbl_profiles>>
       \/ /\ tbl_mods' \in ModTables \ {tbl_mods}
          /\ UNCHANGED <<tbl_tools, tbl_versions, tbl_profiles>>
       \/ /\ tbl_versions' \in SUBSET {TableVersion} \ {tbl_versions}
          /\ UNCHANGED <<tbl_tools, tbl_mods, tbl_profiles>>
       \/ /\ tbl_profiles' \in ProfileTables \ {tbl_profiles}
          /\ UNCHANGED <<tbl_tools, tbl_mods, tbl_versions>>
    /\ lpc' = "idle"
    /\ UNCHANGED <<self_tools, self_mods, self_versions, self_profiles, loadOthers>>

\* load_all is called (main.rs).
load_all_call ==
    /\ lpc \in {"idle", "ok", "err"}
    /\ lpc' = "tools"
    /\ UNCHANGED <<tbl_tools, tbl_mods, tbl_versions, tbl_profiles,
                   self_tools, self_mods, self_versions, self_profiles, loadOthers>>

\* load_tools, lines 179-199: the query fails, or the list is replaced by
\* the rows.
load_tools ==
    /\ lpc = "tools"
    /\ \/ lpc' = "err" /\ UNCHANGED self_tools
       \/ lpc' = "mods" /\ self_tools' = tbl_tools
    /\ UNCHANGED <<tbl_tools, tbl_mods, tbl_versions, tbl_profiles,
                   self_mods, self_versions, self_profiles, loadOthers>>

\* load_mods, were a mod pushed whether or not its tool is loaded.
load_mods_dangling ==
    /\ lpc = "mods"
    /\ \/ lpc' = "err" /\ UNCHANGED self_mods
       \/ lpc' = "versions" /\ self_mods' = tbl_mods
    /\ UNCHANGED <<tbl_tools, tbl_mods, tbl_versions, tbl_profiles,
                   self_tools, self_versions, self_profiles, loadOthers>>

\* load_mods, lines 204-231: the query fails, or the list is replaced by
\* the rows whose tool is loaded.
load_mods ==
    /\ lpc = "mods"
    /\ \/ lpc' = "err" /\ UNCHANGED self_mods
       \/ lpc' = "versions" /\ self_mods' = {r \in tbl_mods : r.tool \in self_tools}
    /\ UNCHANGED <<tbl_tools, tbl_mods, tbl_versions, tbl_profiles,
                   self_tools, self_versions, self_profiles, loadOthers>>

\* load_versions, lines 234-255.
load_versions ==
    /\ lpc = "versions"
    /\ \/ lpc' = "err" /\ UNCHANGED self_versions
       \/ lpc' = "profiles" /\ self_versions' = tbl_versions
    /\ UNCHANGED <<tbl_tools, tbl_mods, tbl_versions, tbl_profiles,
                   self_tools, self_mods, self_profiles, loadOthers>>

\* load_profiles, lines 282-322: the profile built from a row whose version
\* is loaded; ids that name no loaded tool or mod are left out.
loaded_profile(row) ==
    [version |-> row.version,
     tools |-> SelectSeq(split(row.tools), LAMBDA id : id \in self_tools),
     mods |-> LET ids == SelectSeq(split(row.mods),
                                   LAMBDA id : \E m \in self_mods : m.id = id)
              IN  [k \in 1..Len(ids) |-> CHOOSE m \in self_mods : m.id = ids[k]]]

\* load_profiles, lines 263-327, and the return of load_all.
load_all_profiles ==
    /\ lpc = "profiles"
    /\ \/ lpc' = "err" /\ UNCHANGED self_profiles
       \/ /\ lpc' = "ok"
          /\ self_profiles' =
                 {loaded_profile(row) : row \in {r \in tbl_profiles : r.version \in self_versions}}
    /\ UNCHANGED <<tbl_tools, tbl_mods, tbl_versions, tbl_profiles,
                   self_tools, self_mods, self_versions, loadOthers>>

NextLoad ==
    \/ storage_write
    \/ load_all_call
    \/ load_tools
    \/ load_mods
    \/ load_versions
    \/ load_all_profiles

SpecLoad == InitAtRest /\ [][NextLoad]_vars

\* ------------------------------------------------------------------ claims
InvalidKinds == {"invalid", "other"}

Returned == pc = "done"

\* The indices k <= n of the tool entries that are existing dll paths, in order.
DllIndices(n) == SelectSeq([k \in 1..n |-> k], LAMBDA k : tools[k] = "dll")

\* C1: a launch call made while a process with the profile's executable name
\* is present creates no process and no handle, and returns AlreadyRunning,
\* for both entry points.
C1_AlreadyRunningBeforeCreation ==
    (pc # "idle" /\ presentAtCall /\ hasProfile) =>
        /\ ~created
        /\ spawned = 0
        /\ Returned => result = "game.error.already-open"

\* C2: a Watcher has been spawned by a call only once its launch sequence
\* has completed successfully; none exists before process creation or when
\* the launch sequence returned an error.
C2_WatcherAfterLaunch ==
    spawned > 0 => (Returned /\ result = "ok")

\* C3: the values written to the status broadcast alternate true, false,
\* true, false, ...: one true then one false per watched launch, never two
\* consecutive true values.
C3_StatusAlternates ==
    \A k \in 1..Len(statusLog) : statusLog[k] <=> (k % 2 = 1)

LiveWatchers == {w \in 1..MaxLaunches : watcher[w] \notin {"none", "done"}}

\* C4: at most one Watcher thread is live at any time, so the status
\* broadcast has one writer.
C4_AtMostOneLiveWatcher ==
    Cardinality(LiveWatchers) <= 1

\* C5 (as stated): every launch call, from either entry point, has spawned
\* exactly one Watcher when it returns.
C5_OneWatcherPerCall ==
    Returned => spawned = 1

\* C5 (amended): a game__launch call that passes the already-running and
\* profile checks spawns exactly one Watcher; a call that fails one of the
\* two checks, and every cli_game__launch call, spawns none.
C5_OneWatcherPerGuiLaunch ==
    Returned =>
        spawned = IF /\ kind = "gui"
                     /\ result \notin {"game.error.already-open",
                                       "game.error.launch.no-profile"}
                  THEN 1 ELSE 0

\* C5 witness: game__launch has returned success while the Watcher it
\* spawned is still in its first polling loop.
C5_Witness ==
    /\ Returned /\ kind = "gui" /\ result = "ok"
    /\ spawned = 1
    /\ watcher[launches] = "wait_open"

\* C6: once open_game has returned the handle pair, each of the two handles
\* has been closed exactly once when launch_game returns.
C6_HandlesReleasedOnce ==
    (Returned /\ created) => (processCloses = 1 /\ threadCloses = 1)

\* C7: every suspend of the target is paired with a resume before the
\* primary thread is resumed and before launch_game returns.
C7_SuspendPairedWithResume ==
    (Returned \/ threadResumes > 0) => suspends = resumes

GatesEnabled == IF disable_ac THEN 1 ELSE 0

\* C8 (as stated): a successful launch has made exactly N suspends and N
\* resumes of the process, N = 1 with the disable-anti-cheat flag set and
\* N = 0 without it.
C8_BalancedPerGate ==
    (Returned /\ result = "ok") =>
        (suspends = GatesEnabled /\ resumes = GatesEnabled)

\* C8 (amended): with the flag set or not, exactly one suspend and exactly
\* one resume of the process have been made when the primary thread is
\* finally resumed, and the primary thread is resumed once.
C8_OneSuspendOneResume ==
    /\ threadResumes > 0 => (suspends = 1 /\ resumes = 1)
    /\ (Returned /\ result = "ok") =>
           (suspends = 1 /\ resumes = 1 /\ threadResumes = 1)

\* C8 witness: a successful launch without the flag that suspended and
\* resumed the process once around the tool loop.
C8_Witness ==
    /\ Returned /\ result = "ok" /\ ~disable_ac
    /\ suspends = 1 /\ resumes = 1 /\ threadResumes = 1

\* C9: a launch that entered the tool loop has handled every tool of the
\* profile when it returns, whatever failed on the way.
C9_AllToolsAttempted ==
    (Returned /\ i >= 1) => i > Len(tools)

LoopUnfinished == i >= 1 /\ i <= Len(tools)

C12_InjectionAfterGateSuspend ==
    (disable_ac /\ (i >= 1 \/ injected # <<>>)) => suspends = 1

\* C12 witness: with the gate enabled, inject_dll has been called.
C12_Witness ==
    disable_ac /\ injected # <<>> /\ suspends = 1

TokenErrors == {"game.error.launch.not-elevated", "game.error.launch.no-parent"}

\* C14: in a launch in which the token or the shell process could not be
\* obtained, no process is created and no tool is handled, and the launch
\* returns NotElevated or NoParentShell; a process is only ever created
\* with both obtained.
C14_NoCreationWithoutToken ==
    /\ (token = "failed" \/ shell = "failed") =>
           /\ ~created /\ i = 0 /\ injected = <<>>
           /\ Returned /\ result \in TokenErrors
    /\ (created \/ i >= 1 \/ injected # <<>>) => (token = "open" /\ shell = "open")

\* C14 witness: a launch has returned NoParentShell with nothing created.
C14_Witness ==
    /\ Returned /\ result = "game.error.launch.no-parent"
    /\ shell = "failed" /\ ~created

\* C15: the target process is created under the token of the shell process
\* that was opened, not under the launcher's own token.
C15_CreatedUnderShellToken ==
    created => tokenUsed = "shell"

\* The launch returned BadPath or LaunchFailed from open_game.
OpenFailedLate ==
    /\ Returned /\ ~created /\ shell = "open"
    /\ result \in {"game.error.launch.bad-path", "game.error.launch.unknown"}

\* C16: when open_game fails with BadPath or LaunchFailed, no handle the
\* attempt acquired is still open, and the code returned for LaunchFailed
\* is returned for no other kind of failure.
C16_NoHandleLeftOnLaunchFailure ==
    /\ OpenFailedLate => (token # "open" /\ shell # "open")
    /\ (Returned /\ result = "game.error.launch.unknown") => ~created

InjectReturned == injPc = "ret"

\* The outcome of DllOutcomes that names the call's first sub-failure.
InjectOutcome ==
    CASE injFail = "alloc" -> "alloc_fail"
      [] injFail = "write" -> "write_fail"
      [] injFail = "thread" -> "thread_fail"
      [] injFail = "timeout" -> "timeout"
      [] OTHER -> "ok"

\* C17 (as stated): an inject_dll call in which the allocation, the write,
\* the thread creation or the 2-second wait failed returns
\* DllInjectionFailed.
C17_AllSubFailuresReported ==
    (InjectReturned /\ injFail # "none") => injRet = DllFail

\* C17 (amended): inject_dll returns DllInjectionFailed exactly when the
\* allocation failed (seen as the write failing), the write failed or the
\* thread creation failed; when the remote thread does not complete within
\* the 2-second wait it returns success.  The launch model's summary of
\* inject_dll agrees with the steps.
C17_ThreeSubFailuresReported ==
    InjectReturned =>
        /\ (injRet = DllFail) <=> (injFail \in {"alloc", "write", "thread"})
        /\ (injFail \in {"none", "timeout"}) => (injRet = "ok")
        /\ inject_dll(InjectOutcome).err <=> (injRet = DllFail)

\* C17 witness: a call whose wait timed out has returned success.
C17_Witness ==
    InjectReturned /\ injFail = "timeout" /\ injRet = "ok"

\* C18: a game__is_open call made while a launch is in progress on another
\* thread, the anti-cheat wait included, does not have to wait for the
\* launch: whenever the call is at its lock, the lock is free.
C18_QueryNeverWaits ==
    qpc = "lock" => ~ProfileLocked

\* C19: a watcher leaves its first loop only on a poll of its own that finds
\* the game process in the table, and a "true" status is written only by a
\* watcher that has left its first loop that way.
C19_TrueAfterOwnObservation ==
    [][ /\ \A w \in 1..MaxLaunches :
            (watcher[w] = "wait_open" /\ watcher'[w] # "wait_open") =>
                (find_process /\ watcher'[w] = "send_true")
        /\ \A w \in 1..MaxLaunches :
            (watcher'[w] = "send_true" /\ watcher[w] # "send_true") =>
                watcher[w] = "wait_open"
        /\ (statusLog' # statusLog /\ statusLog'[Len(statusLog')] = TRUE) =>
               \E w \in 1..MaxLaunches :
                   watcher[w] = "send_true" /\ watcher'[w] = "wait_close"
      ]_vars

C19_Witness ==
    /\ \E w \in 1..MaxLaunches : watcher[w] = "wait_close"
    /\ Len(statusLog) > 0
    /\ statusLog[Len(statusLog)] = TRUE

\* The shape the claim calls well-formed, tried at position p with a channel
\* of n letters: two letters, n letters, "Win" and three non-empty digit
\* runs separated by dots. The position after the token, 0 when there is
\* none.
Letters == {"B", "C", "D", "E", "L", "N", "O", "R", "S", "U", "V", "W"}

DigitRunEnd(s, p) ==
    CHOOSE q \in p..(Len(s) + 1) :
        /\ \A k \in p..(q - 1) : s[k] \in Digit
        /\ q = Len(s) + 1 \/ s[q] \notin Digit

ShapeWith(s, p, n) ==
    LET w == p + 2 + n
        a == DigitRunEnd(s, w + 3)
        b == DigitRunEnd(s, a + 1)
        c == DigitRunEnd(s, b + 1)
    IN  IF /\ w - 1 <= Len(s)
           /\ \A k \in p..(w - 1) : s[k] \in Letters
           /\ has(s, w, Win)
           /\ a > w + 3 /\ has(s, a, Dot)
           /\ b > a + 1 /\ has(s, b, Dot)
           /\ c > b + 1
        THEN c
        ELSE 0

ShapeEnd(s, p) ==
    IF ShapeWith(s, p, 3) # 0 THEN ShapeWith(s, p, 3) ELSE ShapeWith(s, p, 2)

\* The well-formed tokens of s from position p on, left to right and not
\* overlapping.
RECURSIVE ShapeTokens(_, _)
ShapeTokens(s, p) ==
    IF p > Len(s) THEN <<>>
    ELSE IF ShapeEnd(s, p) # 0
         THEN <<SubSeq(s, p, ShapeEnd(s, p) - 1)>> \o ShapeTokens(s, ShapeEnd(s, p))
         ELSE ShapeTokens(s, p + 1)

\* The match step of locate_game has been taken on a file that was read.
Scanned == vpc \in {"lookup", "save", "done"} /\ game_data # <<>>

\* C20: once a file holding exactly one well-formed token has been scanned,
\* that token is the version and no resolution failure is reported; once a
\* file holding no well-formed token has been scanned, the resolution
\* failure is reported.
C20_WellFormedTokenResolved ==
    Scanned =>
        LET found == ShapeTokens(game_data, 1)
        IN  /\ Len(found) = 1 =>
                (version_string = found[1] /\ verRet # ResolveError)
            /\ Len(found) = 0 => verRet = ResolveError

\* The starts of the substrings VERSION_STRING_REGEX describes: OS or CN, REL
\* or CB, "Win", one digit 1-9, a dot, one digit, a dot.
RegexHeads ==
    {r \o c \o Win \o <<"1", ".", "0", ".">> : r \in {OS, CN}, c \in {REL, CB}}

HeadAt(s, p) ==
    {h \in RegexHeads :
        /\ p + Len(h) - 1 <= Len(s)
        /\ \A k \in 1..Len(h) :
            CASE k = Len(h) - 3 -> s[p + k - 1] \in Digit \ {"0"}
              [] k = Len(h) - 1 -> s[p + k - 1] \in Digit
              [] OTHER -> s[p + k - 1] = h[k]}

\* C20, amended: once a file has been scanned, the version is the leftmost
\* substring made of OS or CN, REL or CB, "Win", one digit 1-9, a dot, one
\* digit, a dot and all the digits (possibly none) that follow; the
\* resolution failure is reported exactly when there is no such substring.
C20_FirstRegexMatchResolved ==
    Scanned =>
        LET starts == {p \in 1..Len(game_data) : HeadAt(game_data, p) # {}}
        IN  IF starts = {}
            THEN version_string = <<>> /\ verRet = ResolveError
            ELSE /\ verRet # ResolveError
                 /\ \E p \in starts :
                     /\ \A y \in starts : p <= y
                     /\ \E q \in p..Len(game_data) :
                         /\ version_string = SubSeq(game_data, p, q)
                         /\ \E h \in HeadAt(game_data, p) :
                             /\ q >= p + Len(h) - 1
                             /\ \A k \in (p + Len(h))..q : game_data[k] \in Digit
                         /\ q = Len(game_data) \/ game_data[q + 1] \notin Digit

C20_Witness ==
    /\ vpc = "done" /\ verRet = "ok"
    /\ game_data[1] = "x"
    /\ Len(version_string) > Len(OS \o REL \o Win) + 5
    /\ Len(game_data) > Len(version_string) + 2

\* The profile passed to Profile::save names a stored version and stored
\* tools only, and all data has been reloaded since.
StoredAndReloaded ==
    /\ ppc = "loaded"
    /\ \E v \in db_versions : v.version = profile[1].version
    /\ \A k \in 1..Len(profile[1].tools) : profile[1].tools[k] \in db_tools

\* C21: a profile whose version and tools are stored is reconstructed by
\* save and reload with the same tool list, in order and multiplicity, and
\* the same version.
C21_ProfileRoundTrip ==
    StoredAndReloaded =>
        /\ Len(profiles) = 1
        /\ profiles[1].tools = profile[1].tools
        /\ profiles[1].version = profile[1].version

\* C22: the gate is entered from process creation only; it goes from waiting
\* for the load to its suspend only on a poll that sees the driver, suspends
\* only then, goes from waiting for the unload to its resume only on a poll
\* that sees no driver, and resumes only then; any other way out of a gate
\* state is the return of an error.
C22_GateStatesInOrder ==
    [][ /\ (pc' = "gate_load" /\ pc # "gate_load") => pc = "open_game"
        /\ (pc = "gate_load" /\ pc' # "gate_load") =>
               \/ pc' = "gate_suspend" /\ driver /\ suspends' = suspends
               \/ pc' = "done" /\ result' = "game.error.launch.unknown"
        /\ (pc' = "gate_suspend" /\ pc # "gate_suspend") => pc = "gate_load"
        /\ (pc = "gate_suspend" /\ pc' # "gate_suspend") =>
               \/ pc' = "gate_unload" /\ suspends' = suspends + 1
               \/ pc' = "done" /\ result' = "game.error.launch.unknown"
        /\ (pc' = "gate_unload" /\ pc # "gate_unload") => pc = "gate_suspend"
        /\ (pc = "gate_unload" /\ pc' # "gate_unload") =>
               \/ pc' = "gate_resume" /\ ~driver /\ resumes' = resumes
               \/ pc' = "done" /\ result' = "game.error.launch.unknown"
        /\ (pc' = "gate_resume" /\ pc # "gate_resume") => pc = "gate_unload"
        /\ (pc = "gate_resume" /\ pc' # "gate_resume") =>
               \/ pc' = "load_library" /\ resumes' = resumes + 1
               \/ pc' = "done" /\ result' = "game.error.launch.unknown"
        /\ (InGate /\ suspends' # suspends) => pc = "gate_suspend"
        /\ (InGate /\ resumes' # resumes) => pc = "gate_resume"
      ]_vars

C22_Witness ==
    /\ pc = "load_library" /\ disable_ac
    /\ suspends = 1 /\ resumes = 1 /\ ~driver

\* C23 (as stated): once the gate has seen the driver loaded and then
\* absent, it reaches its resumed state, where launch_game goes on to the
\* loader lookup.
C23_GateReachesResumed ==
    (disable_ac /\ pc = "gate_resume") ~> (pc = "load_library")

\* C23, amended: once the gate has seen the driver loaded and then absent,
\* it reaches its resumed state unless the resume call fails, and
\* launch_game returns in either case; launch_game leaves the wait for the
\* load only by seeing the driver or by a failed enumeration, and the wait
\* for the unload only by seeing no driver or by a failed enumeration.
C23_GateEndsAndLaunchReturns ==
    /\ (disable_ac /\ pc = "gate_resume") ~>
           (pc = "load_library" \/ (Returned /\ result = "game.error.launch.unknown"))
    /\ (disable_ac /\ pc = "gate_resume") ~> Returned
    /\ [][ /\ (pc = "gate_load" /\ pc' # "gate_load") =>
                  \/ driver /\ pc' = "gate_suspend"
                  \/ Returned' /\ result' = "game.error.launch.unknown"
           /\ (pc = "gate_unload" /\ pc' # "gate_unload") =>
                  \/ ~driver /\ pc' = "gate_resume"
                  \/ Returned' /\ result' = "game.error.launch.unknown"
         ]_vars

C23_Witness ==
    /\ Returned /\ disable_ac /\ result = "ok"
    /\ suspends = 1 /\ resumes = 1 /\ threadResumes = 1

\* C24 (as stated): each of the four polling loops is left only by a poll
\* that sees the awaited condition: the driver loaded, the driver absent,
\* the process present, the process absent.
C24_LoopsLeftOnConditionOnly ==
    [][ /\ (pc = "gate_load" /\ pc' # "gate_load") => driver
        /\ (pc = "gate_unload" /\ pc' # "gate_unload") => ~driver
        /\ \A w \in 1..MaxLaunches :
            /\ (watcher[w] = "wait_open" /\ watcher'[w] # "wait_open") => find_process
            /\ (watcher[w] = "wait_close" /\ watcher'[w] # "wait_close") => ~find_process
      ]_vars

\* C24, amended: a Watcher loop is left only by a poll that sees the awaited
\* condition; a gate loop is left by such a poll or by a failed driver
\* enumeration, which ends launch_game with game.error.launch.unknown.
C24_LoopsLeftOnConditionOrEnumError ==
    [][ /\ (pc = "gate_load" /\ pc' # "gate_load") =>
               \/ driver /\ pc' = "gate_suspend"
               \/ pc' = "done" /\ result' = "game.error.launch.unknown"
        /\ (pc = "gate_unload" /\ pc' # "gate_unload") =>
               \/ ~driver /\ pc' = "gate_resume"
               \/ pc' = "done" /\ result' = "game.error.launch.unknown"
        /\ \A w \in 1..MaxLaunches :
            /\ (watcher[w] = "wait_open" /\ watcher'[w] # "wait_open") =>
                   (find_process /\ watcher'[w] = "send_true")
            /\ (watcher[w] = "wait_close" /\ watcher'[w] # "wait_close") =>
                   (~find_process /\ watcher'[w] = "send_false")
      ]_vars

C24_Witness ==
    /\ disable_ac /\ pc = "load_library" /\ resumes = 1
    /\ \E w \in 1..MaxLaunches : watcher[w] = "done"

\* C25 (as stated): when inject_dll has returned with the region freed, the
\* remote thread had completed within the wait.
C25_FreedOnlyAfterCompletion ==
    (InjectReturned /\ mem = "freed") =>
        (injFail = "none" /\ remote = "exited")

\* C25, amended: when inject_dll has returned, the region has been freed
\* exactly when the remote thread completed within the wait or could not be
\* created; after a timeout and after a failed write it has not.
C25_FreedAfterCompletionOrNoThread ==
    InjectReturned =>
        /\ (mem = "freed") <=>
               \/ injFail = "none" /\ remote = "exited" /\ injRet = "ok"
               \/ injFail = "thread" /\ remote = "none"
        /\ (injFail = "timeout") => (mem = "allocated")

C25_Witness ==
    InjectReturned /\ injFail = "thread" /\ mem = "freed" /\ injRet = DllFail

\* C26: when inject_dll returns on a path on which no remote thread can
\* still be running, that is on every path but the timeout, the region it
\* allocated in the target is no longer allocated.
C26_FreedUnlessThreadMayRun ==
    (InjectReturned /\ injFail # "timeout") => mem # "allocated"

C28_OneAttemptPerDllInOrder ==
    (Returned /\ result = "ok" /\ ~disable_ac) =>
        /\ injected = DllIndices(Len(tools))
        /\ Len(injected) = Cardinality({k \in 1..Len(tools) : tools[k] = "dll"})
        /\ \A m, n \in 1..Len(injected) : m < n => injected[m] < injected[n]

C28_Witness ==
    /\ Returned /\ result = "ok" /\ ~disable_ac
    /\ Len(injected) >= 1 /\ Len(injected) < Len(tools)
    /\ tools[Len(tools)] = "dll"

\* A file was read by the locate_game call and the match step was taken.
FileScanned == vpc \in {"lookup", "save", "done"} /\ files # <<>>

\* The content holds a substring VERSION_STRING_REGEX describes.
HasToken(bytes) ==
    \E p \in 1..Len(bytes) : HeadAt(from_utf8_lossy(bytes), p) # {}

\* C29: the one file scanned is UnityPlayer.dll when it exists and the
\* executable otherwise, and the result depends on that file alone: it is
\* the resolution failure when that file has no token, whatever the other
\* file holds, and it is a token of that file otherwise.
C29_OneFileScanned ==
    FileScanned =>
        LET f == files[1]
            one == IF f.dll # <<>> THEN f.dll[1] ELSE f.exe
        IN  /\ game_data = from_utf8_lossy(one)
            /\ ~HasToken(one) => (verRet = ResolveError /\ version_string = <<>>)
            /\ HasToken(one) =>
                   /\ verRet # ResolveError
                   /\ \E p \in 1..Len(one) :
                        has(from_utf8_lossy(one), p, version_string)

C29_Witness ==
    /\ FileScanned /\ vpc = "done" /\ verRet = ResolveError
    /\ files[1].dll # <<>>
    /\ ~HasToken(files[1].dll[1])
    /\ HasToken(files[1].exe)

\* The version table has a row for the version.
Stored(version) == \E r \in db_versions : r.version = version

\* C30: a locate_game call that resolves a version the table already has a
\* row for returns backend.version.resolve.exists whenever the query is
\* answered, and never changes the table; the table changes only by the
\* insertion of a row for a version it had no row for, with the path of the
\* call, and that call returns success. So after a successful call the
\* version is stored, and the next call resolving it is refused.
C30_KnownVersionRefused ==
    /\ [][ /\ (vpc = "lookup" /\ vpc' # "lookup" /\ Stored(version_string)) =>
                  /\ vpc' = "done"
                  /\ verRet' \in {"backend.version.resolve.exists", "database.query-failed"}
                  /\ db_versions' = db_versions
           /\ (db_versions' # db_versions) =>
                  /\ vpc = "save" /\ ~Stored(version_string)
                  /\ verRet' = "ok"
                  /\ db_versions' = db_versions \cup
                         {[version |-> version_string, path |-> vpath]}
         ]_vars
    /\ []((vpc = "done" /\ verRet = "ok") =>
              [version |-> version_string, path |-> vpath] \in db_versions)
    /\ []((vpc = "done" /\ verRet = "backend.version.resolve.exists") =>
              Stored(version_string))
    /\ [](\A r1, r2 \in db_versions : r1.version = r2.version => r1 = r2)

C30_Witness ==
    /\ vpc = "done" /\ verRet = "backend.version.resolve.exists"
    /\ \E r \in db_versions : r.version = version_string /\ r.path # vpath

\* C31: a driver_loaded call that has returned gave an error exactly when
\* the enumeration failed or the drivers do not fit in the buffer, and
\* otherwise gave true exactly when some loaded driver has a base name that
\* starts with the configured prefix.
C31_TrueIffDriverLoaded ==
    dpc = "ret" =>
        /\ (drvRet = "error") <=> (~enumSucceeds \/ Len(loaded) > BufferEntries)
        /\ (drvRet = "true") <=>
               /\ enumSucceeds /\ Len(loaded) <= BufferEntries
               /\ \E k \in 1..Len(loaded) : loaded[k] = "match"

\* C32: at no time have two sniffer__run calls each a sniffer that was
\* started and not shut down.
C32_AtMostOneSniffer ==
    Cardinality({c \in SniffCalls : SnifferActive(c)}) <= 1

\* C33: once false has been written after a sniffer's start, its shutdown
\* hook is eventually signalled.
C33_FalseLeadsToShutdown ==
    \A c \in SniffCalls : owed[c] ~> (tpc[c] \in {"unset", "done"})

\* C34: while no sniffer__run call is in progress and no listener task is
\* between its hook and its write of the flag, the flag is true exactly when
\* some started sniffer has not been shut down.
C34_FlagMeansSnifferActive ==
    (\A c \in SniffCalls : spc[c] \in {"idle", "done"} /\ tpc[c] # "unset") =>
        (SNIFFER_RUNNING <=> \E c \in SniffCalls : SnifferActive(c))

\* C35: no two profile commands are each blocked on a lock the other holds.
C35_NoDeadlock ==
    \A c, d \in ProfCalls : ~(c # d /\ WaitsFor(c, d) /\ WaitsFor(d, c))

\* No profile command is in progress.
NoCommandRunning == \A c \in ProfCalls : cmd[c].at \in {"idle", "done"}

\* C36: after setup, whenever every profile command made has completed, a
\* selected profile in memory is the one the persistent state names; and
\* profile__set_profile returns bad-id exactly for an id the GameManager does
\* not know, changing neither the persistent state nor the selected profile.
C36_SelectedIsPersisted ==
    /\ [](booted /\ NoCommandRunning /\ SelectedProfile # "none"
            => GLOBAL_STATE = SelectedProfile)
    /\ [](\A c \in ProfCalls :
            cmd[c].op = "set" /\ cmd[c].at = "done"
                => (cmd[c].ret = "bad-id" <=> ~get_profile(cmd[c].id)))
    /\ [][\A c \in ProfCalls :
            cmd[c].ret # "bad-id" /\ cmd'[c].ret = "bad-id"
                => UNCHANGED <<GLOBAL_STATE, SelectedProfile>>]_vars

\* A new profile was selected because setup had found the persisted one
\* unknown, and a later profile__set_profile of an unknown id was refused.
C36_Witness ==
    /\ NoCommandRunning
    /\ \E c, d \in ProfCalls :
        /\ cmd[c].op = "new" /\ cmd[c].ret = "ok"
        /\ cmd[d].op = "set" /\ cmd[d].ret = "bad-id"
        /\ SelectedProfile = cmd[c].id
        /\ ~get_profile(cmd[c].id)

\* C38: a profile for which profile__new_profile or save_profile returned
\* success is one of GameManager.profiles.
C38_SavedProfileKnown ==
    \A c \in ProfCalls :
        cmd[c].op \in {"new", "save"} /\ cmd[c].at = "done" /\ cmd[c].ret = "ok"
            => get_profile(cmd[c].id)

\* C39: when open_executable returns an OpenResult, the working directory
\* is the one stored at entry.
C39_WorkingDirectoryRestored ==
    opc = "ret" /\ openRet \in {"Success", "Failed"} => current_dir = cwd

\* The lists of the GameManager refer to one another only.
ReferentiallyClosed ==
    /\ \A p \in self_profiles :
        /\ p.version \in self_versions
        /\ \A k \in 1..Len(p.tools) : p.tools[k] \in self_tools
        /\ \A k \in 1..Len(p.mods) : p.mods[k] \in self_mods
    /\ \A m \in self_mods : m.tool \in self_tools

\* C37: when load_all has returned success, the loaded profiles, mods, tools
\* and versions are referentially closed, and a row of `mods` or `profiles`
\* that names a missing tool or version has not been loaded.
C37_LoadedDataClosed ==
    lpc = "ok" =>
        /\ ReferentiallyClosed
        /\ \A r \in tbl_mods : r.tool \notin tbl_tools => r \notin self_mods
        /\ \A r \in tbl_profiles : r.version \notin tbl_versions => self_profiles = {}

\* A second load_all succeeded on tables where the mod's tool has no row,
\* and a profile was loaded without the tool and the mod it names in vain.
C37_Witness ==
    /\ lpc = "ok"
    /\ \E r \in tbl_mods : r.tool \notin tbl_tools
    /\ \E r \in tbl_profiles, p \in self_profiles :
        /\ Len(p.tools) < Len(split(r.tools))
        /\ Len(p.mods) < Len(split(r.mods))
        /\ Len(p.tools) > 0

====
